---- MODULE Spec2Model ----
(***************************************************************************)
(* Model of the image store and the VM store of transient                  *)
(* (src/transient/store.py, src/transient/utils.py, src/transient/build.py)*)
(*                                                                         *)
(* Part 1: one backend image name.  The backend directory has two entries  *)
(* for it: the working entry  .working/<encoded name>  and the final entry *)
(* <encoded name>.  Files are inodes; flock() locks belong to the inode    *)
(* that was opened, not to the path.                                       *)
(* Part 2: one VM name in the vmstore.                                     *)
(***************************************************************************)
EXTENDS Integers, Sequences, FiniteSets, TLC

\* ------------------------------------------------------------------ bounds
NumProcs == 3
NumSources == 2
MaxInodes == 3
MaxBuffered == 1
NumDisks == 2
MaxRetries == 1
NumLockers == 2
MaxTimeout == 2
MaxTime == 3
MaxCode == 2
NumRunners == 2
NumEditors == 2
MaxSshTime == 5
MaxSshTimeout == 4
MaxReqs == 2
MaxExtra == 1
NumSenders == 2
MaxConnTries == 3
MaxCmds == 2
MaxFolders == 9
MaxScanTimeout == 4
NumVms == 3
MaxExtraDisks == 2
MaxInstrs == 4
MaxPieces == 5
MaxArgs == 2
MaxNameLen == 4
MaxStream == 3
MaxDepth == 5
NumPids == 2

Procs == 1..NumProcs
Sources == 1..NumSources
Inodes == 1..MaxInodes
Dirs == 1..(NumProcs + 1)
Cfgs == 1..(NumProcs + 1)
Disks == 1..NumDisks
Lockers == 1..NumLockers
Timeouts == -1..MaxTimeout
Codes == 0..MaxCode
Runners == 1..NumRunners
Editors == 1..NumEditors
SSH_CONNECTION_TIME_BETWEEN_TRIES == 2
SshProbeCodes == {0, 1, 255}
MonIds == 0..(MaxReqs - 1)
MonCallbacks == 0..MaxReqs
Senders == 1..NumSenders
Folders == 1..MaxFolders
Vms == 1..NumVms
MAX_CONCURRENT_SSHFS == 7
SIGTERM == 15
SIGKILL == 9

VARIABLES
    workPath,   \* inode at backend/.working/<name>, 0 when the entry is absent
    finalPath,  \* inode at backend/<name>, 0 when the entry is absent
    nInodes,    \* number of inodes created so far
    content,    \* inode -> sequence of blocks in the file
    readonly,   \* inode -> TRUE once chmod'ed to read-only
    flock,      \* inode -> process holding the exclusive flock, 0 when free
    pc,         \* process -> position in its operation
    fd,         \* process -> inode of its open descriptor, 0 when none
    wpos,       \* process -> file offset of the descriptor (in blocks)
    wbuf,       \* process -> blocks written to the buffered file object, not yet in the file
    src         \* process -> source of the image spec it retrieves

bvars == <<workPath, finalPath, nInodes, content, readonly, flock, pc, fd, wpos, wbuf, src>>

\* Part 2, the vmstore entry of one VM name.  Directories and config files
\* are numbered in order of creation; entry 0 of nothing means 'absent'.
VARIABLES
    vmDir,      \* directory at vmstore/<encoded name>, 0 when absent
    nDirs,      \* number of directories created so far
    dirImgs,    \* directory -> disk numbers (1 = primary) of the frontend images in it
    dirCfg,     \* directory -> inode of its 'config' file, 0 when it has none
    dirOwner,   \* directory -> process whose create_vmstate built it (0: an earlier run)
    nCfgs,      \* number of config inodes created so far
    cfgOwner,   \* config inode -> process that wrote it (0: an earlier run)
    cfgValid,   \* config inode -> TRUE when it holds a dumped CreateConfig
    cfgLock,    \* config inode -> process holding its flock, 0 when free
    vpc,        \* process -> position in its vmstore operation
    vop,        \* process -> "lock" or "rm" for the callers of lock_vmstate_by_name
    vfd,        \* process -> config inode of its open descriptor, 0 when none
    vdir,       \* process -> its temporary directory / the directory rmtree opened
    vtodo,      \* process -> entries rmtree listed and has not unlinked yet
    vtries      \* process -> lock retries left before the timeout, -1 for timeout None

vvars == <<vmDir, nDirs, dirImgs, dirCfg, dirOwner, nCfgs, cfgOwner, cfgValid, cfgLock,
           vpc, vop, vfd, vdir, vtodo, vtries>>

\* The lock_file timing model: calls of utils.lock_file on one path, with a clock.
VARIABLES
    now,        \* the clock (time.time()), in units of check_interval
    lkHeldBy,   \* call holding the flock on the path, 0 when free
    lpc,        \* call -> position in lock_file
    ltimeout,   \* call -> timeout argument, -1 for None
    lstart,     \* call -> value of 'start'
    lwake,      \* call -> earliest time its sleep(check_interval) returns
    lslept,     \* call -> number of sleeps taken
    lwaited     \* call -> time.time() - start when flock's OSError was re-raised

lvars == <<now, lkHeldBy, lpc, ltimeout, lstart, lwake, lslept, lwaited>>

\* The lifecycle controller: one TransientVm.run() with its SIGCHLD handler.
VARIABLES
    rpc,        \* position of the main flow in run()
    rcfg,       \* the run configuration
    rstate,     \* TransientVm.state
    rflag,      \* qemu_should_die
    rhandler,   \* TRUE once the SIGCHLD handler is registered
    rsig,       \* TRUE while a SIGCHLD for the hypervisor waits to be handled
    rqemu,      \* the hypervisor child: "none", "running", "zombie", "reaped_main", "reaped_handler"
    rqstatus,   \* exit status of the hypervisor once it died
    rimages,    \* vm_images: "none", "frontend", "backend", "deleted"
    rsnapshot,  \* TRUE when the command line holds -snapshot
    rcleanups,  \* number of completed cleanups (__post_run)
    rssh,       \* exit code of the SSH session, -1 before it ended
    rstop,      \* how the hypervisor was stopped after the SSH session
    rresult,    \* how run() ended: "none", "ok", "process_error", "error"
    rcode       \* return code carried by the TransientProcessError

rvars == <<rpc, rcfg, rstate, rflag, rhandler, rsig, rqemu, rqstatus, rimages,
           rsnapshot, rcleanups, rssh, rstop, rresult, rcode>>

\* The hypervisor runner: QemuRunner objects and their child processes.
VARIABLES
    qstate,     \* per runner: "unstarted" (proc_handle is None), "running", "exited"
    qignore,    \* TRUE when the child ignores SIGTERM
    qstatus,    \* exit status of the child as Popen reports it (-n: killed by signal n)
    qsent,      \* signals the runner has sent to the child
    qtermd,     \* TRUE once terminate() was called while the child was running
    qerr        \* last outcome of a runner call: "none", "RuntimeError", "TimeoutExpired"

qvars == <<qstate, qignore, qstatus, qsent, qtermd, qerr>>

\* The image editor: uses of an ImageEditor, each with its maintenance VM.
VARIABLES
    ekind,      \* per use: "none", "copy_in", "copy_out" (with-statement) or "build"
    eskip,      \* skip_mount
    epc,        \* "new", "spawned", "ready", "closing", "done", "raised"
    evm         \* the maintenance hypervisor: "none", "running", "stopped"

evars == <<ekind, eskip, epc, evm>>

\* The SSH launcher: one call of SshClient.__timed_connection.
VARIABLES
    snow,       \* time.time(), in seconds
    spc,        \* "idle", "loop", "probing", "sleeping", "returned", "raised"
    stimeout,   \* the timeout argument
    sstart,     \* start
    sprobes,    \* number of probe processes run
    sreal,      \* number of real sessions spawned
    slast,      \* return code of the last finished probe, -1 before
    swake,      \* end of the current time.sleep
    sfailAt,    \* time the last probe returned 255
    serr        \* why the call raised: "none", "code", "deadline", "expired"

svars == <<snow, spc, stimeout, sstart, sprobes, sreal, slast, swake, sfailAt, serr>>

\* The monitor client: QmpClient with its sending thread, its reader thread
\* and the hypervisor at the other end of the socket.
VARIABLES
    mcur,       \* current_id
    mcbs,       \* id_callbacks: id -> list of callbacks (empty: no entry)
    mpc,        \* sender inside send_async: "idle", "allocated", "registered"
    mreq,       \* number of send_async calls begun; call n passes callback n
    mid,        \* the local variable id of the running send_async
    mcbid,      \* callback -> id its request carries, -1 before send_async
    mwritten,   \* ids of the requests written to the socket
    mreplies,   \* id -> number of replies the hypervisor has sent
    mextra,     \* number of register_callback calls made outside send_async
    minbox,     \* replies on the socket, not yet read (their ids)
    rdpc,       \* reader thread: "read", "loop", "del"
    rdmsg,      \* id of the reply being dispatched, -1 when none
    rdidx,      \* position of the for loop in the callback list
    rdsnap,     \* the callbacks registered for rdmsg when the reply was read
    minv,       \* callback -> ids of the replies it was invoked with
    mdone       \* id -> number of replies dispatched completely

mvars == <<mcur, mcbs, mpc, mreq, mid, mcbid, mwritten, mreplies, mextra, minbox,
           rdpc, rdmsg, rdidx, rdsnap, minv, mdone>>

\* Threads calling send_sync on one QmpClient at the same time.
VARIABLES
    acur,       \* current_id
    apc,        \* per thread: "idle", "ret", "tmp", "allocated", "registered", "wait", "returned"
    aret,       \* __allocate_id's local ret, the id of the thread's request
    atmp,       \* the value of current_id read by "self.current_id += 1"
    acbs,       \* id_callbacks: id -> the threads whose _sync_callback is listed
    awire,      \* requests written and not yet answered: <<id, thread>>
    aresp       \* send_sync's response: the thread whose request the reply answers, 0 for None

avars == <<acur, apc, aret, atmp, acbs, awire, aresp>>

\* QmpClient.connect and the first commands sent on the new connection.
VARIABLES
    kpc,        \* "idle", "connecting", "socket", "sent", "connected", "failed"
    ktries,     \* refused connection attempts so far
    kwritten,   \* the messages written on the socket, in order
    kanswered,  \* how many of them the hypervisor has answered
    kread       \* lines the reader thread has read (greeting included)

kvars == <<kpc, ktries, kwritten, kanswered, kread>>

\* The shared-folder workers started by run().
VARIABLES
    fpc,        \* "new", "loop", "final", "proceed", "raised"
    fmaps,      \* len(config.shared_folder)
    fnext,      \* the mapping the for loop handles next
    flist,      \* sshfs_threads: the workers started and not yet popped
    fidx,       \* position of the final join loop in sshfs_threads
    fstate,     \* per worker: "unstarted", "running", "finished", "failed"
    fjoined,    \* the workers whose join() returned
    fpeak       \* the largest number of workers that were running at once

fvars == <<fpc, fmaps, fnext, flist, fidx, fstate, fjoined, fpeak>>

\* Process discovery: one call of find_transient_instances(name, timeout),
\* timed by the clock snow.
VARIABLES
    ppc,        \* "idle", "loop", "sleeping", "returned"
    ptimeout,   \* timeout
    pstart,     \* search_start_time
    pwake,      \* end of the current time.sleep
    pprocAt,    \* time the matching process was started, -1 while there is none
    pfound      \* TRUE when the returned list holds the matching process

pvars == <<ppc, ptimeout, pstart, pwake, pprocAt, pfound>>

\* VmStore.vmstates(lock_timeout=0) iterating a store whose entries other
\* processes lock and unlock meanwhile.
VARIABLES
    ipc,        \* "new", "next", "flock", "sleeping", "load", "consuming", "done", "raised"
    ikind,      \* entry -> "hidden", "noconfig", "unparseable", "ok"
    ipos,       \* the entry of the listing the for loop is at
    iext,       \* entries whose config another process holds the flock of
    iheld,      \* the entry whose config the iterator holds the flock of, 0 when none
    iyields,    \* entry -> number of times it was yielded
    iskip       \* entry -> why it was passed over: "none", "hidden", "locked", "error"

ivars == <<ipc, ikind, ipos, iext, iheld, iyields, iskip>>

\* Committing a VM with extra disks: the listing of its directory, the images
\* of the loaded state and the image handed to qemu-img convert.
VARIABLES
    cpc,        \* "new", "listed", "loaded", "committed"
    clisting,   \* os.listdir(dir): disk numbers of the image files, -1 for "config"
    cimages,    \* VmPersistentState.images as disk numbers
    cconverted  \* disk number of the image commit_vmstate converts, -1 before

cvars == <<cpc, clisting, cimages, cconverted>>

\* ImageBuilder: the parsed Imagefile and the outcome of its validation.
VARIABLES
    bpc,        \* "new", "parsed", "validated"
    bprog,      \* ImageBuilder.instructions
    berr        \* the RuntimeError message of __validate, "" when it returns

ibvars == <<bpc, bprog, berr>>

\* ImageSpec: the text given and the fields of the constructed object.
VARIABLES
    zpc,        \* "new", "ok", "invalid" (Invalid image spec), "unknown" (Unknown image source protocol)
    zspec,      \* the spec, a sequence of characters
    zname,      \* ImageSpec.name
    ztoken,     \* the protocol text of the spec, <<>> when the match gave None
    zproto,     \* ImageSpec.source_proto: "vagrant", "http", "file", "none" before
    zsource     \* ImageSpec.source

zvars == <<zpc, zspec, zname, ztoken, zproto, zsource>>

\* Composing a RunConfig from a CreateConfig and a StartConfig.
VARIABLES
    gpc,        \* "new", "composed"
    gcreate,    \* the CreateConfig
    gstart,     \* the StartConfig
    grun        \* the RunConfig

gvars == <<gpc, gcreate, gstart, grun>>

\* Storage-safe names: texts are sequences of code points.
VARIABLES
    ypc,        \* "new", "encoded", "decoded"
    yname,      \* the name
    yenc,       \* storage_safe_encode(name)
    ydec        \* storage_safe_decode of that

yvars == <<ypc, yname, yenc, ydec>>

\* StreamDecompressor: one stream handed to decompress() in chunks.
VARIABLES
    dpc,        \* "new", "streaming"
    dstream,    \* the whole stream, a sequence of bytes
    dfed,       \* number of bytes handed to decompress() so far
    dmethod,    \* decompression_method: "none", "gzip", "bz2", "xz", "plain"
    dchanged    \* whether decompression_method was ever replaced once set

dvars == <<dpc, dstream, dfed, dmethod, dchanged>>

\* do_sshfs_mount: one top-level call and the calls it makes to itself.
VARIABLES
    hpc,          \* "new", "mount", "provision", "script", "mounted", "error"
    hprovisioned, \* is_provisioned of the current call
    hslow,        \* is_slow of the current call
    hdepth,       \* number of calls of do_sshfs_mount so far
    hprovisions,  \* number of calls of provision_system
    hslowcalls,   \* number of calls made with is_slow=True
    hlast         \* what the guest answered last

hvars == <<hpc, hprovisioned, hslow, hdepth, hprovisions, hslowcalls, hlast>>

\* find_transient_instances: one pass over the entries of /proc.
VARIABLES
    opc,        \* "new", "environ", "stat", "data", "filter", "returned", "raised"
    oprocs,     \* the listed entries: what each process is and describes
    ofilter,    \* which of name, vmstore, with_ssh are filtered on
    oexited,    \* listed processes that have exited since the listing
    opos,       \* the entry being examined
    oinstances  \* entries appended to the result

ovars == <<opc, oprocs, ofilter, oexited, opos, oinstances>>

\* Variables of the parts added after the two stores.
xvars == <<lvars, rvars, qvars, evars, svars, mvars, avars, kvars, fvars, pvars, ivars, cvars, ibvars, zvars, gvars, yvars, dvars, hvars, ovars>>

\* What each later part leaves alone.
restL == <<bvars, vvars, rvars, qvars, evars, svars, mvars, avars, kvars, fvars, pvars, ivars, cvars, ibvars, zvars, gvars, yvars, dvars, hvars, ovars>>
restR == <<bvars, vvars, lvars, qvars, evars, svars, mvars, avars, kvars, fvars, pvars, ivars, cvars, ibvars, zvars, gvars, yvars, dvars, hvars, ovars>>
restQ == <<bvars, vvars, lvars, rvars, evars, svars, mvars, avars, kvars, fvars, pvars, ivars, cvars, ibvars, zvars, gvars, yvars, dvars, hvars, ovars>>
restE == <<bvars, vvars, lvars, rvars, qvars, svars, mvars, avars, kvars, fvars, pvars, ivars, cvars, ibvars, zvars, gvars, yvars, dvars, hvars, ovars>>
restS == <<bvars, vvars, lvars, rvars, qvars, evars, mvars, avars, kvars, fvars, pvars, ivars, cvars, ibvars, zvars, gvars, yvars, dvars, hvars, ovars>>
restM == <<bvars, vvars, lvars, rvars, qvars, evars, svars, avars, kvars, fvars, pvars, ivars, cvars, ibvars, zvars, gvars, yvars, dvars, hvars, ovars>>
restA == <<bvars, vvars, lvars, rvars, qvars, evars, svars, mvars, kvars, fvars, pvars, ivars, cvars, ibvars, zvars, gvars, yvars, dvars, hvars, ovars>>
restK == <<bvars, vvars, lvars, rvars, qvars, evars, svars, mvars, avars, fvars, pvars, ivars, cvars, ibvars, zvars, gvars, yvars, dvars, hvars, ovars>>
restF == <<bvars, vvars, lvars, rvars, qvars, evars, svars, mvars, avars, kvars, pvars, ivars, cvars, ibvars, zvars, gvars, yvars, dvars, hvars, ovars>>
restP == <<bvars, vvars, lvars, rvars, qvars, evars, svars, mvars, avars, kvars, fvars, ivars, cvars, ibvars, zvars, gvars, yvars, dvars, hvars, ovars>>
restI == <<bvars, vvars, lvars, rvars, qvars, evars, svars, mvars, avars, kvars, fvars, pvars, cvars, ibvars, zvars, gvars, yvars, dvars, hvars, ovars>>
restC == <<bvars, vvars, lvars, rvars, qvars, evars, svars, mvars, avars, kvars, fvars, pvars, ivars, ibvars, zvars, gvars, yvars, dvars, hvars, ovars>>
restIB == <<bvars, vvars, lvars, rvars, qvars, evars, svars, mvars, avars, kvars, fvars, pvars, ivars, cvars, zvars, gvars, yvars, dvars, hvars, ovars>>
restZ == <<bvars, vvars, lvars, rvars, qvars, evars, svars, mvars, avars, kvars, fvars, pvars, ivars, cvars, ibvars, gvars, yvars, dvars, hvars, ovars>>
restG == <<bvars, vvars, lvars, rvars, qvars, evars, svars, mvars, avars, kvars, fvars, pvars, ivars, cvars, ibvars, zvars, yvars, dvars, hvars, ovars>>
restY == <<bvars, vvars, lvars, rvars, qvars, evars, svars, mvars, avars, kvars, fvars, pvars, ivars, cvars, ibvars, zvars, gvars, dvars, hvars, ovars>>
restD == <<bvars, vvars, lvars, rvars, qvars, evars, svars, mvars, avars, kvars, fvars, pvars, ivars, cvars, ibvars, zvars, gvars, yvars, hvars, ovars>>
restH == <<bvars, vvars, lvars, rvars, qvars, evars, svars, mvars, avars, kvars, fvars, pvars, ivars, cvars, ibvars, zvars, gvars, yvars, dvars, ovars>>
restO == <<bvars, vvars, lvars, rvars, qvars, evars, svars, mvars, avars, kvars, fvars, pvars, ivars, cvars, ibvars, zvars, gvars, yvars, dvars, hvars>>

vars == <<bvars, vvars, xvars>>

\* ------------------------------------------------------------- pure helpers

\* The bytes a protocol writes for source s: s blocks, each tagged s.
SourceBlocks(s) == [i \in 1..s |-> s]

\* qemu-img convert output of the VM's primary image (one block, tag 0).
ConvertedBlocks == <<0>>

\* The working copy made by an image build (one block, tag -1).
BuiltBlocks == <<-1>>

Max(a, b) == IF a >= b THEN a ELSE b

\* write(2) of blocks bs at offset pos: overwrites, extends, never truncates.
WriteAt(c, pos, bs) ==
    [i \in 1..Max(Len(c), pos + Len(bs)) |->
        IF i > pos /\ i <= pos + Len(bs) THEN bs[i - pos] ELSE c[i]]

\* File contents after the buffered file object of p is flushed.
Flushed(p) ==
    IF fd[p] = 0 \/ wbuf[p] = <<>> THEN content
    ELSE [content EXCEPT ![fd[p]] = WriteAt(@, wpos[p], wbuf[p])]

\* Closing the descriptor of p drops every flock it holds.
Released(p) == [i \in Inodes |-> IF flock[i] = p THEN 0 ELSE flock[i]]

BackendInit ==
    /\ workPath = 0
    /\ finalPath = 0
    /\ nInodes = 0
    /\ content = [i \in Inodes |-> <<>>]
    /\ readonly = [i \in Inodes |-> FALSE]
    /\ flock = [i \in Inodes |-> 0]
    /\ pc = [p \in Procs |-> "idle"]
    /\ fd = [p \in Procs |-> 0]
    /\ wpos = [p \in Procs |-> 0]
    /\ wbuf = [p \in Procs |-> <<>>]
    /\ src = [p \in Procs |-> 0]

\* --------------------------------------------------------------- lock_file

\* utils.lock_file, os.open(path, O_RDWR | O_CREAT) on the working entry.
\* A missing entry is created; an existing one is opened without truncation.
\* Opening a read-only file for writing fails unless the caller is privileged.
LockFileOpen(p, next) ==
    /\ IF workPath = 0
       THEN /\ nInodes < MaxInodes
            /\ nInodes' = nInodes + 1
            /\ workPath' = nInodes + 1
            /\ fd' = [fd EXCEPT ![p] = nInodes + 1]
            /\ pc' = [pc EXCEPT ![p] = next]
       ELSE /\ UNCHANGED <<nInodes, workPath>>
            /\ \/ /\ fd' = [fd EXCEPT ![p] = workPath]
                  /\ pc' = [pc EXCEPT ![p] = next]
               \/ /\ readonly[workPath]
                  /\ fd' = fd
                  /\ pc' = [pc EXCEPT ![p] = "failed"]
    /\ UNCHANGED <<finalPath, content, readonly, flock, wpos, wbuf, src>>

\* Mutant of LockFileAcquire: the lock does not exclude (a shared lock).
LockFileAcquireShared(p, next) ==
    /\ flock' = [flock EXCEPT ![fd[p]] = p]
    /\ wpos' = [wpos EXCEPT ![p] = 0]
    /\ wbuf' = [wbuf EXCEPT ![p] = <<>>]
    /\ pc' = [pc EXCEPT ![p] = next]
    /\ UNCHANGED <<workPath, finalPath, nInodes, content, readonly, fd, src>>

\* utils.lock_file, fcntl.flock(fd, LOCK_EX) with timeout None: blocks until
\* the inode's lock is free, then open(fd, mode) wraps the descriptor in a
\* buffered file object at offset 0 (no truncation: the file is not reopened).
LockFileAcquire(p, next) ==
    /\ flock[fd[p]] = 0
    /\ flock' = [flock EXCEPT ![fd[p]] = p]
    /\ wpos' = [wpos EXCEPT ![p] = 0]
    /\ wbuf' = [wbuf EXCEPT ![p] = <<>>]
    /\ pc' = [pc EXCEPT ![p] = next]
    /\ UNCHANGED <<workPath, finalPath, nInodes, content, readonly, fd, src>>

\* End of the lock_file scope: the file object is closed, which flushes its
\* buffer and closes the descriptor (releasing the flock); the descriptor's
\* offset goes with it.
LockFileClose(p, next) ==
    /\ content' = Flushed(p)
    /\ flock' = Released(p)
    /\ fd' = [fd EXCEPT ![p] = 0]
    /\ wpos' = [wpos EXCEPT ![p] = 0]
    /\ wbuf' = [wbuf EXCEPT ![p] = <<>>]
    /\ pc' = [pc EXCEPT ![p] = next]
    /\ src' = [src EXCEPT ![p] = IF next = "done_fetch" THEN @ ELSE 0]
    /\ UNCHANGED <<workPath, finalPath, nInodes, readonly>>

\* ---------------------------------------------------------- retrieve_image

\* BackendImageStore.retrieve_image: the lock-free 'already exists' check.
BackendRetrieveImage(p) ==
    /\ pc[p] = "idle"
    /\ UNCHANGED <<vvars, xvars>>
    /\ pc' = [pc EXCEPT ![p] = IF finalPath # 0 THEN "done_fast" ELSE "r_open"]
    /\ UNCHANGED <<workPath, finalPath, nInodes, content, readonly, flock, fd, wpos, wbuf, src>>

RetrieveOpen(p) ==
    /\ pc[p] = "r_open"
    /\ UNCHANGED <<vvars, xvars>>
    /\ LockFileOpen(p, "r_flock")

RetrieveLock(p) ==
    /\ pc[p] = "r_flock"
    /\ UNCHANGED <<vvars, xvars>>
    /\ LockFileAcquire(p, "r_check")

\* Mutant of RetrieveRecheck: no re-check of the final path under the lock.
RetrieveNoRecheck(p) ==
    /\ pc[p] = "r_check"
    /\ UNCHANGED <<vvars, xvars>>
    /\ pc' = [pc EXCEPT ![p] = "r_fetch"]
    /\ \E s \in Sources : src' = [src EXCEPT ![p] = s]
    /\ UNCHANGED <<workPath, finalPath, nInodes, content, readonly, flock, fd, wpos, wbuf>>

\* BaseImageProtocol.retrieve_image: the re-check of the final path under the lock.
RetrieveRecheck(p) ==
    /\ pc[p] = "r_check"
    /\ UNCHANGED <<vvars, xvars>>
    /\ IF finalPath # 0
       THEN LockFileClose(p, "done_skip")
       ELSE /\ pc' = [pc EXCEPT ![p] = "r_fetch"]
            /\ \E s \in Sources : src' = [src EXCEPT ![p] = s]
            /\ UNCHANGED <<workPath, finalPath, nInodes, content, readonly, flock, fd, wpos, wbuf>>

\* _do_retrieve_image: one destination.write(block).  The block either stays
\* in the file object's buffer or is written through together with the
\* buffered blocks before it.
DoRetrieveWrite(p) ==
    /\ pc[p] = "r_fetch"
    /\ UNCHANGED <<vvars, xvars>>
    /\ wpos[p] + Len(wbuf[p]) < Len(SourceBlocks(src[p]))
    /\ LET b == SourceBlocks(src[p])[wpos[p] + Len(wbuf[p]) + 1] IN
       \/ /\ Len(wbuf[p]) < MaxBuffered
          /\ wbuf' = [wbuf EXCEPT ![p] = Append(@, b)]
          /\ UNCHANGED <<content, wpos>>
       \/ /\ content' = [content EXCEPT ![fd[p]] = WriteAt(@, wpos[p], Append(wbuf[p], b))]
          /\ wpos' = [wpos EXCEPT ![p] = @ + Len(wbuf[p]) + 1]
          /\ wbuf' = [wbuf EXCEPT ![p] = <<>>]
    /\ UNCHANGED <<workPath, finalPath, nInodes, readonly, flock, pc, fd, src>>

\* _do_retrieve_image returns after the last block.
DoRetrieveDone(p) ==
    /\ pc[p] = "r_fetch"
    /\ UNCHANGED <<vvars, xvars>>
    /\ wpos[p] + Len(wbuf[p]) = Len(SourceBlocks(src[p]))
    /\ pc' = [pc EXCEPT ![p] = "r_rename"]
    /\ UNCHANGED <<workPath, finalPath, nInodes, content, readonly, flock, fd, wpos, wbuf, src>>

\* _do_retrieve_image raises (HTTP error, missing file, bad tarball): the
\* exception leaves the lock_file scope.
DoRetrieveFail(p) ==
    /\ pc[p] = "r_fetch"
    /\ UNCHANGED <<vvars, xvars>>
    /\ LockFileClose(p, "failed")

\* os.rename(temp_destination, destination)
RetrieveRename(p) ==
    /\ pc[p] = "r_rename"
    /\ UNCHANGED <<vvars, xvars>>
    /\ IF workPath = 0
       THEN LockFileClose(p, "failed")
       ELSE /\ finalPath' = workPath
            /\ workPath' = 0
            /\ pc' = [pc EXCEPT ![p] = "r_chmod"]
            /\ UNCHANGED <<nInodes, content, readonly, flock, fd, wpos, wbuf, src>>

\* utils.make_path_readonly(destination)
RetrieveChmod(p) ==
    /\ pc[p] = "r_chmod"
    /\ UNCHANGED <<vvars, xvars>>
    /\ IF finalPath = 0
       THEN LockFileClose(p, "failed")
       ELSE /\ readonly' = [readonly EXCEPT ![finalPath] = TRUE]
            /\ pc' = [pc EXCEPT ![p] = "r_close"]
            /\ UNCHANGED <<workPath, finalPath, nInodes, content, flock, fd, wpos, wbuf, src>>

RetrieveClose(p) ==
    /\ pc[p] = "r_close"
    /\ UNCHANGED <<vvars, xvars>>
    /\ LockFileClose(p, "done_fetch")

\* A process is killed part-way: its descriptors are closed by the kernel
\* (flock released), the unflushed buffer is lost.
Running(p) == pc[p] \notin {"idle", "done_fast", "done_skip", "done_fetch", "done_commit",
                            "done_build", "done_delete", "failed", "killed"}

Kill(p) ==
    /\ Running(p)
    /\ UNCHANGED <<vvars, xvars>>
    /\ flock' = Released(p)
    /\ fd' = [fd EXCEPT ![p] = 0]
    /\ wpos' = [wpos EXCEPT ![p] = 0]
    /\ wbuf' = [wbuf EXCEPT ![p] = <<>>]
    /\ pc' = [pc EXCEPT ![p] = "killed"]
    /\ src' = [src EXCEPT ![p] = 0]
    /\ UNCHANGED <<workPath, finalPath, nInodes, content, readonly>>

RetrieveStep(p) ==
    \/ BackendRetrieveImage(p)
    \/ RetrieveOpen(p)
    \/ RetrieveLock(p)
    \/ RetrieveRecheck(p)
    \/ DoRetrieveWrite(p)
    \/ DoRetrieveDone(p)
    \/ DoRetrieveFail(p)
    \/ RetrieveRename(p)
    \/ RetrieveChmod(p)
    \/ RetrieveClose(p)

\* ---------------------------------------------------------- commit_vmstate

\* BackendImageStore.commit_vmstate: lock_file(working, "wb"), the open.
CommitOpen(p) ==
    /\ pc[p] = "idle"
    /\ UNCHANGED <<vvars, xvars>>
    /\ LockFileOpen(p, "c_flock")

CommitLock(p) ==
    /\ pc[p] = "c_flock"
    /\ UNCHANGED <<vvars, xvars>>
    /\ LockFileAcquire(p, "c_check")

\* Mutant of CommitCheck: the commit does not look at the final path.
CommitNoCheck(p) ==
    /\ pc[p] = "c_check"
    /\ UNCHANGED <<vvars, xvars>>
    /\ pc' = [pc EXCEPT ![p] = "c_convert"]
    /\ UNCHANGED <<workPath, finalPath, nInodes, content, readonly, flock, fd, wpos, wbuf, src>>

\* if os.path.exists(destination): raise TransientError(... already exists)
CommitCheck(p) ==
    /\ pc[p] = "c_check"
    /\ UNCHANGED <<vvars, xvars>>
    /\ IF finalPath # 0
       THEN LockFileClose(p, "failed_exists")
       ELSE /\ pc' = [pc EXCEPT ![p] = "c_convert"]
            /\ UNCHANGED <<workPath, finalPath, nInodes, content, readonly, flock, fd, wpos, wbuf, src>>

\* qemu-img convert <primary image> -O qcow2 <working>: the converter opens
\* the working path itself (creating the entry when it is missing) and writes
\* the flattened image from offset 0, cutting the file to the new size.
CommitConvert(p) ==
    /\ pc[p] = "c_convert"
    /\ UNCHANGED <<vvars, xvars>>
    /\ IF workPath = 0
       THEN /\ nInodes < MaxInodes
            /\ nInodes' = nInodes + 1
            /\ workPath' = nInodes + 1
            /\ content' = [content EXCEPT ![nInodes + 1] = ConvertedBlocks]
       ELSE /\ content' = [content EXCEPT ![workPath] = ConvertedBlocks]
            /\ UNCHANGED <<nInodes, workPath>>
    /\ pc' = [pc EXCEPT ![p] = "c_chmod"]
    /\ UNCHANGED <<finalPath, readonly, flock, fd, wpos, wbuf, src>>

\* run_check_retcode raises when the converter exits non-zero.
CommitConvertFail(p) ==
    /\ pc[p] = "c_convert"
    /\ UNCHANGED <<vvars, xvars>>
    /\ LockFileClose(p, "failed")

\* utils.make_path_readonly(working)
CommitChmod(p) ==
    /\ pc[p] = "c_chmod"
    /\ UNCHANGED <<vvars, xvars>>
    /\ IF workPath = 0
       THEN LockFileClose(p, "failed")
       ELSE /\ readonly' = [readonly EXCEPT ![workPath] = TRUE]
            /\ pc' = [pc EXCEPT ![p] = "c_rename"]
            /\ UNCHANGED <<workPath, finalPath, nInodes, content, flock, fd, wpos, wbuf, src>>

\* os.rename(working, destination): replaces whatever is at the destination.
CommitRename(p) ==
    /\ pc[p] = "c_rename"
    /\ UNCHANGED <<vvars, xvars>>
    /\ IF workPath = 0
       THEN LockFileClose(p, "failed")
       ELSE /\ finalPath' = workPath
            /\ workPath' = 0
            /\ pc' = [pc EXCEPT ![p] = "c_close"]
            /\ UNCHANGED <<nInodes, content, readonly, flock, fd, wpos, wbuf, src>>

CommitClose(p) ==
    /\ pc[p] = "c_close"
    /\ UNCHANGED <<vvars, xvars>>
    /\ LockFileClose(p, "done_commit")

CommitStep(p) ==
    \/ CommitOpen(p)
    \/ CommitLock(p)
    \/ CommitCheck(p)
    \/ CommitConvert(p)
    \/ CommitConvertFail(p)
    \/ CommitChmod(p)
    \/ CommitRename(p)
    \/ CommitClose(p)

\* -------------------------------------------------------- ImageBuilder.build

\* ImageBuilder.__prepare_new_image for a backend build: the working image is
\* store.working/<encoded name>, opened with open(working, "wb") (created or
\* truncated) and filled with a copy of the base image; no lock is taken.
BuildPrepareNewImage(p) ==
    /\ pc[p] = "idle"
    /\ UNCHANGED <<vvars, xvars>>
    /\ IF workPath = 0
       THEN /\ nInodes < MaxInodes
            /\ nInodes' = nInodes + 1
            /\ workPath' = nInodes + 1
            /\ content' = [content EXCEPT ![nInodes + 1] = BuiltBlocks]
       ELSE /\ content' = [content EXCEPT ![workPath] = BuiltBlocks]
            /\ UNCHANGED <<nInodes, workPath>>
    /\ pc' = [pc EXCEPT ![p] = "b_edit"]
    /\ UNCHANGED <<finalPath, readonly, flock, fd, wpos, wbuf, src>>

\* ImageBuilder.build: the editor runs the instructions and is closed.
BuildRunInstructions(p) ==
    /\ pc[p] = "b_edit"
    /\ UNCHANGED <<vvars, xvars>>
    /\ pc' = [pc EXCEPT ![p] = "b_chmod"]
    /\ UNCHANGED <<workPath, finalPath, nInodes, content, readonly, flock, fd, wpos, wbuf, src>>

\* A build step raises: build() is left with the working image in place.
BuildFail(p) ==
    /\ pc[p] = "b_edit"
    /\ UNCHANGED <<vvars, xvars>>
    /\ pc' = [pc EXCEPT ![p] = "failed"]
    /\ UNCHANGED <<workPath, finalPath, nInodes, content, readonly, flock, fd, wpos, wbuf, src>>

\* os.chmod(new_image, S_IREAD | S_IRGRP | S_IROTH)
BuildChmod(p) ==
    /\ pc[p] = "b_chmod"
    /\ UNCHANGED <<vvars, xvars>>
    /\ IF workPath = 0
       THEN /\ pc' = [pc EXCEPT ![p] = "failed"]
            /\ UNCHANGED readonly
       ELSE /\ readonly' = [readonly EXCEPT ![workPath] = TRUE]
            /\ pc' = [pc EXCEPT ![p] = "b_rename"]
    /\ UNCHANGED <<workPath, finalPath, nInodes, content, flock, fd, wpos, wbuf, src>>

\* os.rename(new_image, destination)
BuildRename(p) ==
    /\ pc[p] = "b_rename"
    /\ UNCHANGED <<vvars, xvars>>
    /\ IF workPath = 0
       THEN /\ pc' = [pc EXCEPT ![p] = "failed"]
            /\ UNCHANGED <<workPath, finalPath>>
       ELSE /\ finalPath' = workPath
            /\ workPath' = 0
            /\ pc' = [pc EXCEPT ![p] = "done_build"]
    /\ UNCHANGED <<nInodes, content, readonly, flock, fd, wpos, wbuf, src>>

BuildStep(p) ==
    \/ BuildPrepareNewImage(p)
    \/ BuildRunInstructions(p)
    \/ BuildFail(p)
    \/ BuildChmod(p)
    \/ BuildRename(p)

\* ------------------------------------------------------------- delete_image

\* BackendImageStore.delete_image: os.remove(image.path) of a listed image.
DeleteImage(p) ==
    /\ pc[p] = "idle"
    /\ UNCHANGED <<vvars, xvars>>
    /\ finalPath # 0
    /\ finalPath' = 0
    /\ pc' = [pc EXCEPT ![p] = "done_delete"]
    /\ UNCHANGED <<workPath, nInodes, content, readonly, flock, fd, wpos, wbuf, src>>

\* =================================================================== VmStore

\* The vmstore either has no directory for the VM name, or holds the complete
\* directory an earlier create_vmstate left there.
VmInit ==
    /\ \/ /\ vmDir = 0 /\ nDirs = 0 /\ nCfgs = 0
          /\ dirImgs = [d \in Dirs |-> {}]
          /\ dirCfg = [d \in Dirs |-> 0]
          /\ cfgValid = [c \in Cfgs |-> FALSE]
       \/ /\ vmDir = 1 /\ nDirs = 1 /\ nCfgs = 1
          /\ dirImgs = [d \in Dirs |-> IF d = 1 THEN Disks ELSE {}]
          /\ dirCfg = [d \in Dirs |-> IF d = 1 THEN 1 ELSE 0]
          /\ cfgValid = [c \in Cfgs |-> c = 1]
    /\ dirOwner = [d \in Dirs |-> 0]
    /\ cfgOwner = [c \in Cfgs |-> 0]
    /\ cfgLock = [c \in Cfgs |-> 0]
    /\ vpc = [p \in Procs |-> "idle"]
    /\ vop = [p \in Procs |-> "none"]
    /\ vfd = [p \in Procs |-> 0]
    /\ vdir = [p \in Procs |-> 0]
    /\ vtodo = [p \in Procs |-> {}]
    /\ vtries = [p \in Procs |-> 0]

\* A directory with no entry left (rename(2) and rmdir(2) accept only those).
DirEmpty(d) == dirImgs[d] = {} /\ dirCfg[d] = 0

\* Closing the config descriptor of p drops the flock it holds.
CfgReleased(p) == [c \in Cfgs |-> IF cfgLock[c] = p THEN 0 ELSE cfgLock[c]]

\* ----------------------------------------------------------- create_vmstate

\* if os.path.exists(vmdir): raise TransientError(... already exists)
\* else tempfile.TemporaryDirectory(prefix=".", dir=self.path)
CreateVmstate(p) ==
    /\ vpc[p] = "idle"
    /\ IF vmDir # 0
       THEN /\ vpc' = [vpc EXCEPT ![p] = "failed_exists"]
            /\ UNCHANGED <<nDirs, dirOwner, vdir>>
       ELSE /\ nDirs' = nDirs + 1
            /\ dirOwner' = [dirOwner EXCEPT ![nDirs + 1] = p]
            /\ vdir' = [vdir EXCEPT ![p] = nDirs + 1]
            /\ vpc' = [vpc EXCEPT ![p] = "v_images"]
    /\ UNCHANGED <<vmDir, dirImgs, dirCfg, nCfgs, cfgOwner, cfgValid, cfgLock, vop, vfd, vtodo, vtries>>
    /\ UNCHANGED <<bvars, xvars>>

\* __create_vm_image(img, name, num, tempdir): the primary image first, then
\* the extra images in order (the backend images are taken to be present).
CreateVmImage(p) ==
    /\ vpc[p] = "v_images"
    /\ LET num == Cardinality(dirImgs[vdir[p]]) + 1 IN
       /\ dirImgs' = [dirImgs EXCEPT ![vdir[p]] = @ \cup {num}]
       /\ vpc' = [vpc EXCEPT ![p] = IF num = NumDisks THEN "v_config" ELSE "v_images"]
    /\ UNCHANGED <<vmDir, nDirs, dirCfg, dirOwner, nCfgs, cfgOwner, cfgValid, cfgLock, vop, vfd, vdir, vtodo, vtries>>
    /\ UNCHANGED <<bvars, xvars>>

\* retrieve_image or qemu-img create raises: TemporaryDirectory removes the
\* temporary directory on the way out.
CreateVmImageFail(p) ==
    /\ vpc[p] = "v_images"
    /\ dirImgs' = [dirImgs EXCEPT ![vdir[p]] = {}]
    /\ vdir' = [vdir EXCEPT ![p] = 0]
    /\ vpc' = [vpc EXCEPT ![p] = "failed"]
    /\ UNCHANGED <<vmDir, nDirs, dirCfg, dirOwner, nCfgs, cfgOwner, cfgValid, cfgLock, vop, vfd, vtodo, vtries>>
    /\ UNCHANGED <<bvars, xvars>>

\* __create_vm_config(name, config, tempdir)
CreateVmConfig(p) ==
    /\ vpc[p] = "v_config"
    /\ nCfgs' = nCfgs + 1
    /\ dirCfg' = [dirCfg EXCEPT ![vdir[p]] = nCfgs + 1]
    /\ cfgOwner' = [cfgOwner EXCEPT ![nCfgs + 1] = p]
    /\ cfgValid' = [cfgValid EXCEPT ![nCfgs + 1] = TRUE]
    /\ vpc' = [vpc EXCEPT ![p] = "v_rename"]
    /\ UNCHANGED <<vmDir, nDirs, dirImgs, dirOwner, cfgLock, vop, vfd, vdir, vtodo, vtries>>
    /\ UNCHANGED <<bvars, xvars>>

\* Mutant of CreateRename: the rename replaces whatever directory is there.
CreateRenameReplacing(p) ==
    /\ vpc[p] = "v_rename"
    /\ vmDir' = vdir[p]
    /\ vpc' = [vpc EXCEPT ![p] = "done_create"]
    /\ vdir' = [vdir EXCEPT ![p] = 0]
    /\ UNCHANGED <<dirImgs, dirCfg>>
    /\ UNCHANGED <<nDirs, dirOwner, nCfgs, cfgOwner, cfgValid, cfgLock, vop, vfd, vtodo, vtries>>
    /\ UNCHANGED <<bvars, xvars>>

\* os.rename(tempdir, vmdir); os.mkdir(tempdir); return name.  rename(2) of a
\* directory succeeds when the target is absent or an empty directory and
\* fails with ENOTEMPTY otherwise; the failure removes the temporary directory.
CreateRename(p) ==
    /\ vpc[p] = "v_rename"
    /\ IF vmDir = 0 \/ DirEmpty(vmDir)
       THEN /\ vmDir' = vdir[p]
            /\ vpc' = [vpc EXCEPT ![p] = "done_create"]
            /\ UNCHANGED <<dirImgs, dirCfg>>
       ELSE /\ dirImgs' = [dirImgs EXCEPT ![vdir[p]] = {}]
            /\ dirCfg' = [dirCfg EXCEPT ![vdir[p]] = 0]
            /\ vpc' = [vpc EXCEPT ![p] = "failed_rename"]
            /\ UNCHANGED vmDir
    /\ vdir' = [vdir EXCEPT ![p] = 0]
    /\ UNCHANGED <<nDirs, dirOwner, nCfgs, cfgOwner, cfgValid, cfgLock, vop, vfd, vtodo, vtries>>
    /\ UNCHANGED <<bvars, xvars>>

\* A process is killed part-way: its descriptors are closed by the kernel,
\* everything it put in the file system stays.
VmRunning(p) == vpc[p] \notin {"idle", "done_create", "done_lock", "done_rm", "failed",
                               "failed_exists", "failed_rename", "err_notfound",
                               "err_noconfig", "err_lockheld", "err_assert", "killed"}

VmKill(p) ==
    /\ VmRunning(p)
    /\ cfgLock' = CfgReleased(p)
    /\ vfd' = [vfd EXCEPT ![p] = 0]
    /\ vdir' = [vdir EXCEPT ![p] = 0]
    /\ vtodo' = [vtodo EXCEPT ![p] = {}]
    /\ vtries' = [vtries EXCEPT ![p] = 0]
    /\ vpc' = [vpc EXCEPT ![p] = "killed"]
    /\ UNCHANGED <<vmDir, nDirs, dirImgs, dirCfg, dirOwner, nCfgs, cfgOwner, cfgValid, vop>>
    /\ UNCHANGED <<bvars, xvars>>

CreateStep(p) ==
    \/ CreateVmstate(p)
    \/ CreateVmImage(p)
    \/ CreateVmImageFail(p)
    \/ CreateVmConfig(p)
    \/ CreateRename(p)

\* ------------------------------------------------------ lock_vmstate_by_name

\* The state get_vmstate_by_name(name) returns is not None: the directory and
\* its config exist, the config parses, and the primary image is found.
VmstateLoads ==
    /\ vmDir # 0
    /\ dirCfg[vmDir] # 0
    /\ cfgValid[dirCfg[vmDir]]
    /\ 1 \in dirImgs[vmDir]

\* lock_vmstate_by_name(name, timeout), called directly (op = "lock") or by
\* rm_vmstate_by_name (op = "rm"): the two os.path.exists checks.
LockVmstateByName(p) ==
    /\ vpc[p] = "idle"
    /\ \E op \in {"lock", "rm"} : vop' = [vop EXCEPT ![p] = op]
    /\ \E t \in -1..MaxRetries : vtries' = [vtries EXCEPT ![p] = t]
    /\ vpc' = [vpc EXCEPT ![p] =
                 IF vmDir = 0 THEN "err_notfound"
                 ELSE IF dirCfg[vmDir] = 0 THEN "err_noconfig"
                 ELSE "l_open"]
    /\ UNCHANGED <<vmDir, nDirs, dirImgs, dirCfg, dirOwner, nCfgs, cfgOwner, cfgValid, cfgLock, vfd, vdir, vtodo>>
    /\ UNCHANGED <<bvars, xvars>>

\* utils.lock_file(cfg_path, "r", timeout), os.open(path, O_RDWR | O_CREAT):
\* fails with an OSError when the directory is gone (turned into
\* TransientVmStoreLockHeld), creates an empty config when only the file is gone.
LockVmOpen(p) ==
    /\ vpc[p] = "l_open"
    /\ IF vmDir = 0
       THEN /\ vpc' = [vpc EXCEPT ![p] = "err_lockheld"]
            /\ UNCHANGED <<nCfgs, dirCfg, vfd>>
       ELSE IF dirCfg[vmDir] = 0
       THEN /\ nCfgs < NumProcs + 1
            /\ nCfgs' = nCfgs + 1
            /\ dirCfg' = [dirCfg EXCEPT ![vmDir] = nCfgs + 1]
            /\ vfd' = [vfd EXCEPT ![p] = nCfgs + 1]
            /\ vpc' = [vpc EXCEPT ![p] = "l_flock"]
       ELSE /\ vfd' = [vfd EXCEPT ![p] = dirCfg[vmDir]]
            /\ vpc' = [vpc EXCEPT ![p] = "l_flock"]
            /\ UNCHANGED <<nCfgs, dirCfg>>
    /\ UNCHANGED <<vmDir, nDirs, dirImgs, dirOwner, cfgOwner, cfgValid, cfgLock, vop, vdir, vtodo, vtries>>
    /\ UNCHANGED <<bvars, xvars>>

\* fcntl.flock succeeds (LOCK_EX, or LOCK_EX | LOCK_NB when a timeout is given).
LockVmAcquire(p) ==
    /\ vpc[p] = "l_flock"
    /\ cfgLock[vfd[p]] = 0
    /\ cfgLock' = [cfgLock EXCEPT ![vfd[p]] = p]
    /\ vpc' = [vpc EXCEPT ![p] = "l_load"]
    /\ UNCHANGED <<vmDir, nDirs, dirImgs, dirCfg, dirOwner, nCfgs, cfgOwner, cfgValid, vop, vfd, vdir, vtodo, vtries>>
    /\ UNCHANGED <<bvars, xvars>>

\* The non-blocking flock fails and time.time() - start < timeout: sleep, retry.
LockVmRetry(p) ==
    /\ vpc[p] = "l_flock"
    /\ cfgLock[vfd[p]] # 0
    /\ vtries[p] > 0
    /\ vtries' = [vtries EXCEPT ![p] = @ - 1]
    /\ UNCHANGED <<vmDir, nDirs, dirImgs, dirCfg, dirOwner, nCfgs, cfgOwner, cfgValid, cfgLock, vpc, vop, vfd, vdir, vtodo>>
    /\ UNCHANGED <<bvars, xvars>>

\* The non-blocking flock fails after the timeout: lock_file re-raises the
\* OSError, lock_vmstate_by_name turns it into TransientVmStoreLockHeld.
LockVmTimeout(p) ==
    /\ vpc[p] = "l_flock"
    /\ cfgLock[vfd[p]] # 0
    /\ vtries[p] = 0
    /\ vfd' = [vfd EXCEPT ![p] = 0]
    /\ vpc' = [vpc EXCEPT ![p] = "err_lockheld"]
    /\ UNCHANGED <<vmDir, nDirs, dirImgs, dirCfg, dirOwner, nCfgs, cfgOwner, cfgValid, cfgLock, vop, vdir, vtodo, vtries>>
    /\ UNCHANGED <<bvars, xvars>>

\* state = self.get_vmstate_by_name(name); assert state is not None; yield state
LockVmLoad(p) ==
    /\ vpc[p] = "l_load"
    /\ IF VmstateLoads
       THEN /\ vpc' = [vpc EXCEPT ![p] = IF vop[p] = "rm" THEN "rm_scan" ELSE "l_held"]
            /\ UNCHANGED <<cfgLock, vfd>>
       ELSE /\ vpc' = [vpc EXCEPT ![p] = "err_assert"]
            /\ cfgLock' = CfgReleased(p)
            /\ vfd' = [vfd EXCEPT ![p] = 0]
    /\ UNCHANGED <<vmDir, nDirs, dirImgs, dirCfg, dirOwner, nCfgs, cfgOwner, cfgValid, vop, vdir, vtodo, vtries>>
    /\ UNCHANGED <<bvars, xvars>>

\* The caller's with-block ends: the config descriptor is closed.
LockVmRelease(p) ==
    /\ vpc[p] \in {"l_held", "rm_release"}
    /\ cfgLock' = CfgReleased(p)
    /\ vfd' = [vfd EXCEPT ![p] = 0]
    /\ vpc' = [vpc EXCEPT ![p] = IF vpc[p] = "l_held" THEN "done_lock" ELSE "done_rm"]
    /\ UNCHANGED <<vmDir, nDirs, dirImgs, dirCfg, dirOwner, nCfgs, cfgOwner, cfgValid, vop, vdir, vtodo, vtries>>
    /\ UNCHANGED <<bvars, xvars>>

\* -------------------------------------------------------- rm_vmstate_by_name

\* shutil.rmtree(vmdir) inside the locked section: the directory is opened by
\* path and its entries are listed.  An OSError raised by rmtree leaves the
\* section through lock_vmstate_by_name's 'except OSError'.
RmtreeScan(p) ==
    /\ vpc[p] = "rm_scan"
    /\ IF vmDir = 0
       THEN /\ vpc' = [vpc EXCEPT ![p] = "err_lockheld"]
            /\ cfgLock' = CfgReleased(p)
            /\ vfd' = [vfd EXCEPT ![p] = 0]
            /\ UNCHANGED <<vdir, vtodo>>
       ELSE /\ vdir' = [vdir EXCEPT ![p] = vmDir]
            /\ vtodo' = [vtodo EXCEPT ![p] =
                           dirImgs[vmDir] \cup (IF dirCfg[vmDir] # 0 THEN {0} ELSE {})]
            /\ vpc' = [vpc EXCEPT ![p] = "rm_unlink"]
            /\ UNCHANGED <<cfgLock, vfd>>
    /\ UNCHANGED <<vmDir, nDirs, dirImgs, dirCfg, dirOwner, nCfgs, cfgOwner, cfgValid, vop, vtries>>
    /\ UNCHANGED <<bvars, xvars>>

\* rmtree unlinks one listed entry (0 stands for 'config'), in listing order,
\* which is any order.
RmtreeUnlink(p) ==
    /\ vpc[p] = "rm_unlink"
    /\ \E e \in vtodo[p] :
          /\ vtodo' = [vtodo EXCEPT ![p] = @ \ {e}]
          /\ IF e = 0
             THEN dirCfg' = [dirCfg EXCEPT ![vdir[p]] = 0] /\ UNCHANGED dirImgs
             ELSE dirImgs' = [dirImgs EXCEPT ![vdir[p]] = @ \ {e}] /\ UNCHANGED dirCfg
          /\ vpc' = [vpc EXCEPT ![p] = IF vtodo[p] = {e} THEN "rm_rmdir" ELSE "rm_unlink"]
    /\ UNCHANGED <<vmDir, nDirs, dirOwner, nCfgs, cfgOwner, cfgValid, cfgLock, vop, vfd, vdir, vtries>>
    /\ UNCHANGED <<bvars, xvars>>

\* rmtree ends with os.rmdir(path), which needs an empty directory at the path.
RmtreeRmdir(p) ==
    /\ vpc[p] = "rm_rmdir"
    /\ IF vmDir # 0 /\ DirEmpty(vmDir)
       THEN /\ vmDir' = 0
            /\ vpc' = [vpc EXCEPT ![p] = "rm_release"]
            /\ UNCHANGED <<cfgLock, vfd>>
       ELSE /\ vpc' = [vpc EXCEPT ![p] = "err_lockheld"]
            /\ cfgLock' = CfgReleased(p)
            /\ vfd' = [vfd EXCEPT ![p] = 0]
            /\ UNCHANGED vmDir
    /\ vdir' = [vdir EXCEPT ![p] = 0]
    /\ UNCHANGED <<nDirs, dirImgs, dirCfg, dirOwner, nCfgs, cfgOwner, cfgValid, vop, vtodo, vtries>>
    /\ UNCHANGED <<bvars, xvars>>

LockStep(p) ==
    \/ LockVmstateByName(p)
    \/ LockVmOpen(p)
    \/ LockVmAcquire(p)
    \/ LockVmRetry(p)
    \/ LockVmTimeout(p)
    \/ LockVmLoad(p)
    \/ LockVmRelease(p)
    \/ RmtreeScan(p)
    \/ RmtreeUnlink(p)
    \/ RmtreeRmdir(p)

\* ------------------------------------------------ utils.lock_file with a timeout

LockInit ==
    /\ now = 0
    /\ lkHeldBy = 0
    /\ lpc = [l \in Lockers |-> "idle"]
    /\ ltimeout = [l \in Lockers |-> -1]
    /\ lstart = [l \in Lockers |-> 0]
    /\ lwake = [l \in Lockers |-> 0]
    /\ lslept = [l \in Lockers |-> 0]
    /\ lwaited = [l \in Lockers |-> 0]

\* lock_file(path, mode, timeout): os.open and start = time.time().
LockFile(l) ==
    /\ lpc[l] = "idle"
    /\ \E t \in Timeouts :
          ltimeout' = [ltimeout EXCEPT ![l] = t]
    /\ lstart' = [lstart EXCEPT ![l] = now]
    /\ lpc' = [lpc EXCEPT ![l] = "flock"]
    /\ UNCHANGED <<now, lkHeldBy, lwake, lslept, lwaited>>
    /\ UNCHANGED restL

\* fcntl.flock(fd, lock_flags) succeeds: the path's lock is free.
LockFlockOk(l) ==
    /\ lpc[l] = "flock"
    /\ lkHeldBy = 0
    /\ lkHeldBy' = l
    /\ lpc' = [lpc EXCEPT ![l] = "held"]
    /\ lstart' = [lstart EXCEPT ![l] = 0]
    /\ lwake' = [lwake EXCEPT ![l] = 0]
    /\ lslept' = [lslept EXCEPT ![l] = 0]
    /\ UNCHANGED <<now, ltimeout, lwaited>>
    /\ UNCHANGED restL

\* A flock failure that is re-raised at once, whatever the timeout.
LockFlockFailNoWait(l) ==
    /\ lpc[l] = "flock"
    /\ lkHeldBy # 0
    /\ ltimeout[l] # -1
    /\ lpc' = [lpc EXCEPT ![l] = "raised"]
    /\ lwaited' = [lwaited EXCEPT ![l] = now - lstart[l]]
    /\ lstart' = [lstart EXCEPT ![l] = 0]
    /\ UNCHANGED <<now, lkHeldBy, ltimeout, lwake, lslept>>
    /\ UNCHANGED restL

\* fcntl.flock with LOCK_NB fails with OSError while the lock is held: sleep
\* and retry while time.time() - start < timeout, re-raise otherwise. With
\* timeout None the flock call blocks instead (no step here).
LockFlockFail(l) ==
    /\ lpc[l] = "flock"
    /\ lkHeldBy # 0
    /\ ltimeout[l] # -1
    /\ IF now - lstart[l] < ltimeout[l]
       THEN /\ lpc' = [lpc EXCEPT ![l] = "sleep"]
            /\ lwake' = [lwake EXCEPT ![l] = now + 1]
            /\ lslept' = [lslept EXCEPT ![l] = @ + 1]
            /\ UNCHANGED <<lwaited, lstart>>
       ELSE /\ lpc' = [lpc EXCEPT ![l] = "raised"]
            /\ lwaited' = [lwaited EXCEPT ![l] = now - lstart[l]]
            /\ lstart' = [lstart EXCEPT ![l] = 0]
            /\ UNCHANGED <<lwake, lslept>>
    /\ UNCHANGED <<now, lkHeldBy, ltimeout>>
    /\ UNCHANGED restL

\* time.sleep(check_interval) returns, no earlier than check_interval later.
LockSleepDone(l) ==
    /\ lpc[l] = "sleep"
    /\ now >= lwake[l]
    /\ lpc' = [lpc EXCEPT ![l] = "flock"]
    /\ UNCHANGED <<now, lkHeldBy, ltimeout, lstart, lwake, lslept, lwaited>>
    /\ UNCHANGED restL

\* An exception leaves the body while the descriptor stays open.
LockBodyRaisesKeepingFd(l) ==
    /\ lpc[l] = "held"
    /\ lpc' = [lpc EXCEPT ![l] = "done_exc"]
    /\ UNCHANGED <<now, lkHeldBy, ltimeout, lstart, lwake, lslept, lwaited>>
    /\ UNCHANGED restL

\* The with-body ends normally: 'with open(fd, mode)' closes the descriptor.
LockBodyExits(l) ==
    /\ lpc[l] = "held"
    /\ lkHeldBy' = 0
    /\ lpc' = [lpc EXCEPT ![l] = "done"]
    /\ ltimeout' = [ltimeout EXCEPT ![l] = -1]
    /\ UNCHANGED <<now, lstart, lwake, lslept, lwaited>>
    /\ UNCHANGED restL

\* The with-body raises: the exception is thrown into the generator at the
\* yield and 'with open(fd, mode)' closes the descriptor on the way out.
LockBodyRaises(l) ==
    /\ lpc[l] = "held"
    /\ lkHeldBy' = 0
    /\ lpc' = [lpc EXCEPT ![l] = "done_exc"]
    /\ ltimeout' = [ltimeout EXCEPT ![l] = -1]
    /\ UNCHANGED <<now, lstart, lwake, lslept, lwaited>>
    /\ UNCHANGED restL

\* The clock advances.
Tick ==
    /\ now < MaxTime
    /\ now' = now + 1
    /\ UNCHANGED <<lkHeldBy, lpc, ltimeout, lstart, lwake, lslept, lwaited>>
    /\ UNCHANGED restL


\* ------------------------------------------------ TransientVm.run (lifecycle)

RunConfigs ==
    [named : BOOLEAN, copyIn : BOOLEAN, copyOut : BOOLEAN,
     console : BOOLEAN, shared : BOOLEAN, prepareOnly : BOOLEAN]

\* __is_stateless as if copy-in mappings did not count.
IsStatelessIgnoringCopyIn(c) == ~c.copyOut /\ ~c.named

\* __is_stateless: no copy-out, no copy-in and no name.
IsStateless(c) == ~c.copyOut /\ ~c.copyIn /\ ~c.named

RunEnded == rpc \in {"returned", "raised"}

RunInit ==
    /\ rpc = "new"
    /\ rcfg = [named |-> FALSE, copyIn |-> FALSE, copyOut |-> FALSE,
               console |-> FALSE, shared |-> FALSE, prepareOnly |-> FALSE]
    /\ rstate = "WAITING"
    /\ rflag = FALSE
    /\ rhandler = FALSE
    /\ rsig = FALSE
    /\ rqemu = "none"
    /\ rqstatus = 0
    /\ rimages = "none"
    /\ rsnapshot = FALSE
    /\ rcleanups = 0
    /\ rssh = -1
    /\ rstop = "none"
    /\ rresult = "none"
    /\ rcode = 0

\* An exception other than TransientProcessError leaves run().
RunRaises ==
    /\ rpc' = "raised"
    /\ rresult' = "error"

\* __post_run(returncode), called from the main flow or from the handler:
\* copy-out, removal of the images of an anonymous VM, then the process error.
PostRun(returncode, inHandler) ==
    /\ rstate' = "FINISHED"
    /\ \/ /\ rcfg.copyOut
          /\ RunRaises
          /\ UNCHANGED <<rimages, rcleanups, rcode>>
       \/ /\ ~rcfg.named /\ ~IsStateless(rcfg) /\ rimages = "deleted"
          /\ RunRaises
          /\ UNCHANGED <<rimages, rcleanups, rcode>>
       \/ /\ (~rcfg.named /\ ~IsStateless(rcfg)) => rimages # "deleted"
          /\ rimages' = IF ~rcfg.named /\ ~IsStateless(rcfg) THEN "deleted" ELSE rimages
          /\ rcleanups' = rcleanups + 1
          /\ IF returncode # 0
             THEN /\ rpc' = "raised"
                  /\ rresult' = "process_error"
                  /\ rcode' = returncode
             ELSE /\ rpc' = IF inHandler THEN rpc ELSE "returned"
                  /\ rresult' = IF inHandler THEN rresult ELSE "ok"
                  /\ UNCHANGED rcode

\* Popen.poll()/wait() of the main flow once the child is dead: its status if
\* the main flow reaps it with no handler call pending, 0 when the child was
\* reaped by the handler or the handler's waitpid fails inside Popen's own
\* ECHILD handling.
PopenReturncode == IF rqemu = "zombie" /\ ~rsig THEN rqstatus ELSE 0

\* run() starts: state = RUNNING.
RunStart ==
    /\ rpc = "new"
    /\ \E c \in RunConfigs : rcfg' = c
    /\ rstate' = "RUNNING"
    /\ rpc' = "images"
    /\ UNCHANGED <<rflag, rhandler, rsig, rqemu, rqstatus, rimages, rsnapshot,
                   rcleanups, rssh, rstop, rresult, rcode>>
    /\ UNCHANGED restR

\* Frontend images are created unless the run is stateless.
RunCreateImages ==
    /\ rpc = "images"
    /\ rimages' = IF IsStateless(rcfg) THEN "backend" ELSE "frontend"
    /\ rpc' = "copyin"
    /\ UNCHANGED <<rcfg, rstate, rflag, rhandler, rsig, rqemu, rqstatus, rsnapshot,
                   rcleanups, rssh, rstop, rresult, rcode>>
    /\ UNCHANGED restR

\* __copy_in_files, then prepare_only.
RunCopyIn ==
    /\ rpc = "copyin"
    /\ rpc' = IF rcfg.prepareOnly THEN "post_prepare" ELSE "args"
    /\ UNCHANGED <<rcfg, rstate, rflag, rhandler, rsig, rqemu, rqstatus, rimages,
                   rsnapshot, rcleanups, rssh, rstop, rresult, rcode>>
    /\ UNCHANGED restR

\* A copy-in fails (bad mapping, editor or scp failure).
RunCopyInFails ==
    /\ rpc = "copyin"
    /\ rcfg.copyIn
    /\ RunRaises
    /\ UNCHANGED <<rcfg, rstate, rflag, rhandler, rsig, rqemu, rqstatus, rimages,
                   rsnapshot, rcleanups, rssh, rstop, rcode>>
    /\ UNCHANGED restR

\* prepare_only: return self.__post_run(0).
RunPrepareOnly ==
    /\ rpc = "post_prepare"
    /\ PostRun(0, FALSE)
    /\ UNCHANGED <<rcfg, rflag, rhandler, rsig, rqemu, rqstatus, rsnapshot, rssh, rstop>>
    /\ UNCHANGED restR

\* __qemu_added_args and QemuRunner.start().
RunStartQemu ==
    /\ rpc = "args"
    /\ rsnapshot' = IsStateless(rcfg)
    /\ rqemu' = "running"
    /\ rpc' = "register"
    /\ UNCHANGED <<rcfg, rstate, rflag, rhandler, rsig, rqstatus, rimages,
                   rcleanups, rssh, rstop, rresult, rcode>>
    /\ UNCHANGED restR

\* signal.signal(SIGCHLD, handler).
RunRegisterHandler ==
    /\ rpc = "register"
    /\ rhandler' = TRUE
    /\ rpc' = "poll"
    /\ UNCHANGED <<rcfg, rstate, rflag, rsig, rqemu, rqstatus, rimages, rsnapshot,
                   rcleanups, rssh, rstop, rresult, rcode>>
    /\ UNCHANGED restR

\* qemu_proc.poll() right after registration.
RunPoll ==
    /\ rpc = "poll"
    /\ IF rqemu = "running"
       THEN /\ rpc' = "sshfs"
            /\ UNCHANGED <<rstate, rsig, rqemu, rimages, rcleanups, rresult, rcode>>
       ELSE /\ PostRun(PopenReturncode, FALSE)
            /\ rqemu' = IF rqemu = "zombie" THEN "reaped_main" ELSE rqemu
            /\ rsig' = FALSE
    /\ UNCHANGED <<rcfg, rflag, rhandler, rqstatus, rsnapshot, rssh, rstop>>
    /\ UNCHANGED restR

\* The shared-folder workers are started and joined.
RunSharedFolders ==
    /\ rpc = "sshfs"
    /\ rpc' = IF rcfg.console THEN "qmp" ELSE "wait"
    /\ UNCHANGED <<rcfg, rstate, rflag, rhandler, rsig, rqemu, rqstatus, rimages,
                   rsnapshot, rcleanups, rssh, rstop, rresult, rcode>>
    /\ UNCHANGED restR

\* A worker failed: checked_threading.Thread.join re-raises its exception.
RunSharedFolderFails ==
    /\ rpc = "sshfs"
    /\ rcfg.shared
    /\ RunRaises
    /\ UNCHANGED <<rcfg, rstate, rflag, rhandler, rsig, rqemu, rqstatus, rimages,
                   rsnapshot, rcleanups, rssh, rstop, rcode>>
    /\ UNCHANGED restR

\* qmp_client.connect succeeds.
RunQmpConnect ==
    /\ rpc = "qmp"
    /\ rpc' = "ssh"
    /\ UNCHANGED <<rcfg, rstate, rflag, rhandler, rsig, rqemu, rqstatus, rimages,
                   rsnapshot, rcleanups, rssh, rstop, rresult, rcode>>
    /\ UNCHANGED restR

\* qmp_client.connect raises ConnectionRefusedError.
RunQmpConnectFails ==
    /\ rpc = "qmp"
    /\ RunRaises
    /\ UNCHANGED <<rcfg, rstate, rflag, rhandler, rsig, rqemu, rqstatus, rimages,
                   rsnapshot, rcleanups, rssh, rstop, rcode>>
    /\ UNCHANGED restR

\* __connect_ssh: the session ran and ended with some exit code.
RunConnectSsh ==
    /\ rpc = "ssh"
    /\ \E c \in Codes : rssh' = c
    /\ rpc' = "setflag"
    /\ UNCHANGED <<rcfg, rstate, rflag, rhandler, rsig, rqemu, rqstatus, rimages,
                   rsnapshot, rcleanups, rstop, rresult, rcode>>
    /\ UNCHANGED restR

\* __connect_ssh: the connection could not be made (RuntimeError).
RunConnectSshFails ==
    /\ rpc = "ssh"
    /\ RunRaises
    /\ UNCHANGED <<rcfg, rstate, rflag, rhandler, rsig, rqemu, rqstatus, rimages,
                   rsnapshot, rcleanups, rssh, rstop, rcode>>
    /\ UNCHANGED restR


\* qemu_should_die = True, just before the shutdown is requested.
RunSetFlag ==
    /\ rpc = "setflag"
    /\ rflag' = TRUE
    /\ rpc' = "shutdown"
    /\ UNCHANGED <<rcfg, rstate, rhandler, rsig, rqemu, rqstatus, rimages, rsnapshot,
                   rcleanups, rssh, rstop, rresult, rcode>>
    /\ UNCHANGED restR

\* qemu_runner.shutdown(timeout): the hypervisor exited within the timeout.
RunShutdownClean ==
    /\ rpc = "shutdown"
    /\ rqemu # "running"
    /\ rqemu' = IF rqemu = "zombie" THEN "reaped_main" ELSE rqemu
    /\ rsig' = FALSE
    /\ rstop' = "clean"
    /\ rpc' = "post_ssh"
    /\ UNCHANGED <<rcfg, rstate, rflag, rhandler, rqstatus, rimages, rsnapshot,
                   rcleanups, rssh, rresult, rcode>>
    /\ UNCHANGED restR

\* qemu_runner.shutdown(timeout) raises TimeoutExpired (at once for timeout 0).
RunShutdownTimeout ==
    /\ rpc = "shutdown"
    /\ rqemu = "running"
    /\ rpc' = "terminate"
    /\ UNCHANGED <<rcfg, rstate, rflag, rhandler, rsig, rqemu, rqstatus, rimages,
                   rsnapshot, rcleanups, rssh, rstop, rresult, rcode>>
    /\ UNCHANGED restR

\* qemu_runner.terminate() after the timeout: 'if self.proc_handle.poll():'
\* is None for a running hypervisor, which is therefore left running; a dead
\* one is reaped by the poll and Popen.terminate() then has nothing to signal.
RunTerminate ==
    /\ rpc = "terminate"
    /\ rqemu' = IF rqemu = "zombie" THEN "reaped_main" ELSE rqemu
    /\ rsig' = IF rqemu = "zombie" THEN FALSE ELSE rsig
    /\ rstop' = "terminated"
    /\ rpc' = "post_ssh"
    /\ UNCHANGED <<rcfg, rstate, rflag, rhandler, rqstatus, rimages, rsnapshot,
                   rcleanups, rssh, rresult, rcode>>
    /\ UNCHANGED restR

\* The console path ends with the hypervisor's status instead of the session's.
RunPostSshWithQemuStatus ==
    /\ rpc = "post_ssh"
    /\ PostRun(rqstatus, FALSE)
    /\ UNCHANGED <<rcfg, rflag, rhandler, rsig, rqemu, rqstatus, rsnapshot, rssh, rstop>>
    /\ UNCHANGED restR

\* The console path ends: return self.__post_run(returncode) with the SSH code.
RunPostSsh ==
    /\ rpc = "post_ssh"
    /\ PostRun(rssh, FALSE)
    /\ UNCHANGED <<rcfg, rflag, rhandler, rsig, rqemu, rqstatus, rsnapshot, rssh, rstop>>
    /\ UNCHANGED restR

\* No console: returncode = qemu_runner.wait(); return self.__post_run(returncode).
RunWait ==
    /\ rpc = "wait"
    /\ rqemu # "running"
    /\ PostRun(PopenReturncode, FALSE)
    /\ rqemu' = IF rqemu = "zombie" THEN "reaped_main" ELSE rqemu
    /\ rsig' = FALSE
    /\ UNCHANGED <<rcfg, rflag, rhandler, rqstatus, rsnapshot, rssh, rstop>>
    /\ UNCHANGED restR

\* The hypervisor exits by itself; SIGCHLD reaches the handler once registered.
QemuDies ==
    /\ rqemu = "running"
    /\ ~RunEnded
    /\ \E c \in Codes : rqstatus' = c
    /\ rqemu' = "zombie"
    /\ rsig' = rhandler
    /\ UNCHANGED <<rpc, rcfg, rstate, rflag, rhandler, rimages, rsnapshot,
                   rcleanups, rssh, rstop, rresult, rcode>>
    /\ UNCHANGED restR

\* __qemu_sigchld_handler runs in the main thread before the main flow reaped
\* the child: nothing when FINISHED; otherwise waitpid reaps the hypervisor,
\* silently when qemu_should_die, with __post_run(exit_status) when not.
SigchldHandler ==
    /\ rhandler /\ rsig
    /\ rqemu = "zombie"
    /\ ~RunEnded
    /\ rsig' = FALSE
    /\ IF rstate = "FINISHED"
       THEN UNCHANGED <<rpc, rstate, rqemu, rimages, rcleanups, rresult, rcode>>
       ELSE /\ rqemu' = "reaped_handler"
            /\ IF rflag
               THEN UNCHANGED <<rpc, rstate, rimages, rcleanups, rresult, rcode>>
               ELSE PostRun(rqstatus, TRUE)
    /\ UNCHANGED <<rcfg, rflag, rhandler, rqstatus, rsnapshot, rssh, rstop>>
    /\ UNCHANGED restR


\* ------------------------------------------------------ hypervisor runner

RunnerInit ==
    /\ qstate = [r \in Runners |-> "unstarted"]
    /\ qignore = [r \in Runners |-> FALSE]
    /\ qstatus = [r \in Runners |-> 0]
    /\ qsent = [r \in Runners |-> {}]
    /\ qtermd = [r \in Runners |-> FALSE]
    /\ qerr = [r \in Runners |-> "none"]

\* Popen.poll() is None while the child runs and its returncode afterwards;
\* "if self.proc_handle.poll():" takes the branch for a non-zero returncode only.
PollIsTruthy(r) == qstate[r] = "exited" /\ qstatus[r] # 0

\* Popen.send_signal: a child already waited for is left alone; SIGKILL ends
\* the child, SIGTERM ends it unless the child ignores it.
PopenSendSignal(r, sig) ==
    IF qstate[r] = "running"
    THEN /\ qsent' = [qsent EXCEPT ![r] = @ \cup {sig}]
         /\ IF sig = SIGKILL \/ ~qignore[r]
            THEN /\ qstate' = [qstate EXCEPT ![r] = "exited"]
                 /\ qstatus' = [qstatus EXCEPT ![r] = -sig]
            ELSE UNCHANGED <<qstate, qstatus>>
    ELSE UNCHANGED <<qstate, qstatus, qsent>>

\* start(): the child is spawned; the child may ignore SIGTERM.
RunnerStart(r) ==
    /\ qstate[r] = "unstarted"
    /\ \E ign \in BOOLEAN : qignore' = [qignore EXCEPT ![r] = ign]
    /\ qstate' = [qstate EXCEPT ![r] = "running"]
    /\ qerr' = [qerr EXCEPT ![r] = "none"]
    /\ UNCHANGED <<qstatus, qsent, qtermd>>
    /\ UNCHANGED restQ

\* The child ends by itself with some exit code.
ChildExits(r) ==
    /\ qstate[r] = "running"
    /\ \E c \in Codes : qstatus' = [qstatus EXCEPT ![r] = c]
    /\ qstate' = [qstate EXCEPT ![r] = "exited"]
    /\ UNCHANGED <<qignore, qsent, qtermd, qerr>>
    /\ UNCHANGED restQ

\* terminate(): RuntimeError when not started; otherwise
\* "if self.proc_handle.poll(): self.proc_handle.terminate()".
RunnerTerminate(r) ==
    /\ IF qstate[r] = "unstarted"
       THEN /\ qerr' = [qerr EXCEPT ![r] = "RuntimeError"]
            /\ UNCHANGED <<qstate, qstatus, qsent, qtermd>>
       ELSE /\ qerr' = [qerr EXCEPT ![r] = "none"]
            /\ qtermd' = [qtermd EXCEPT ![r] = @ \/ qstate[r] = "running"]
            /\ IF PollIsTruthy(r)
               THEN PopenSendSignal(r, SIGTERM)
               ELSE UNCHANGED <<qstate, qstatus, qsent>>
    /\ UNCHANGED qignore
    /\ UNCHANGED restQ

\* kill(): the same with SIGKILL.
RunnerKill(r) ==
    /\ IF qstate[r] = "unstarted"
       THEN /\ qerr' = [qerr EXCEPT ![r] = "RuntimeError"]
            /\ UNCHANGED <<qstate, qstatus, qsent>>
       ELSE /\ qerr' = [qerr EXCEPT ![r] = "none"]
            /\ IF PollIsTruthy(r)
               THEN PopenSendSignal(r, SIGKILL)
               ELSE UNCHANGED <<qstate, qstatus, qsent>>
    /\ UNCHANGED <<qignore, qtermd>>
    /\ UNCHANGED restQ

\* wait(timeout): RuntimeError when not started, TimeoutExpired while the
\* child still runs at the end of the timeout, the returncode otherwise.
RunnerWait(r) ==
    /\ qerr' = [qerr EXCEPT ![r] =
                   CASE qstate[r] = "unstarted" -> "RuntimeError"
                     [] qstate[r] = "running" -> "TimeoutExpired"
                     [] OTHER -> "none"]
    /\ qerr'[r] # qerr[r]
    /\ UNCHANGED <<qstate, qignore, qstatus, qsent, qtermd>>
    /\ UNCHANGED restQ

\* ------------------------------------------------------------ image editor

EditorInit ==
    /\ ekind = [e \in Editors |-> "none"]
    /\ eskip = [e \in Editors |-> FALSE]
    /\ epc = [e \in Editors |-> "new"]
    /\ evm = [e \in Editors |-> "none"]

\* The uses entered through "with ImageEditor(...) as edit:".
IsWithUse(e) == ekind[e] \in {"copy_in", "copy_out"}

\* ImageEditor(config, path, skip_mount): copy-in and copy-out construct it
\* with the default skip_mount, the builder with __is_from_scratch().
EditorNew(e) ==
    /\ ekind[e] = "none"
    /\ \E k \in {"copy_in", "copy_out", "build"}, skip \in BOOLEAN :
        /\ (k # "build") => ~skip
        /\ ekind' = [ekind EXCEPT ![e] = k]
        /\ eskip' = [eskip EXCEPT ![e] = skip]
    /\ UNCHANGED <<epc, evm>>
    /\ UNCHANGED restE

\* edit(), first part: _spawn_qemu starts the hypervisor and connects the
\* monitor; a failing connection raises out of edit() with the child started.
EditorSpawn(e) ==
    /\ ekind[e] # "none" /\ epc[e] = "new"
    /\ evm' = [evm EXCEPT ![e] = "running"]
    /\ \E ok \in BOOLEAN : epc' = [epc EXCEPT ![e] = IF ok THEN "spawned" ELSE "raised"]
    /\ UNCHANGED <<ekind, eskip>>
    /\ UNCHANGED restE

\* edit(), second part: find_ssh_port_forward and, unless skip_mount,
\* _prepare_mount; either may raise.  An exception of edit() is an exception
\* of __enter__, for which the with statement does not call __exit__, and the
\* builder calls edit() outside any try.
EditorSetup(e) ==
    /\ epc[e] = "spawned"
    /\ \E portOk \in BOOLEAN, mountOk \in BOOLEAN :
        /\ eskip[e] => mountOk
        /\ epc' = [epc EXCEPT ![e] = IF portOk /\ mountOk THEN "ready" ELSE "raised"]
    /\ UNCHANGED <<ekind, eskip, evm>>
    /\ UNCHANGED restE

\* The body of the use: the copy of a with-use, or the build steps.  A
\* failing with-body runs __exit__, hence close(), before the exception goes
\* on; a failing build step leaves build() at once.
EditorUse(e) ==
    /\ epc[e] = "ready"
    /\ \E ok \in BOOLEAN :
        epc' = [epc EXCEPT ![e] =
                   IF ok \/ IsWithUse(e) THEN "closing" ELSE "raised"]
    /\ UNCHANGED <<ekind, eskip, evm>>
    /\ UNCHANGED restE

\* close(): runner.shutdown() stops the hypervisor.
EditorClose(e) ==
    /\ epc[e] = "closing"
    /\ evm' = [evm EXCEPT ![e] = "stopped"]
    /\ epc' = [epc EXCEPT ![e] = "done"]
    /\ UNCHANGED <<ekind, eskip>>
    /\ UNCHANGED restE


\* ------------------------------------------------------------ SSH launcher

SshInit ==
    /\ snow = 0 /\ spc = "idle" /\ stimeout = 0 /\ sstart = 0
    /\ sprobes = 0 /\ sreal = 0 /\ slast = -1 /\ swake = 0 /\ sfailAt = 0
    /\ serr = "none"

\* Time passes.
SshTick ==
    /\ snow < MaxSshTime
    /\ snow' = snow + 1
    /\ UNCHANGED <<spc, stimeout, sstart, sprobes, sreal, slast, swake, sfailAt, serr>>
    /\ UNCHANGED restS

\* __timed_connection(timeout): start = time.time().
SshConnect ==
    /\ spc = "idle"
    /\ \E t \in 0..MaxSshTimeout : stimeout' = t
    /\ sstart' = snow
    /\ spc' = "loop"
    /\ UNCHANGED <<snow, sprobes, sreal, slast, swake, sfailAt, serr>>
    /\ UNCHANGED restS

\* "while time.time() - start < timeout": the next probe is started, or the
\* loop ends and RuntimeError("Failed to connect ...") is raised.
SshLoop ==
    /\ spc = "loop"
    /\ IF snow - sstart < stimeout
       THEN /\ spc' = "probing"
            /\ sprobes' = sprobes + 1
            /\ UNCHANGED serr
       ELSE /\ spc' = "raised"
            /\ serr' = "deadline"
            /\ UNCHANGED sprobes
    /\ UNCHANGED <<snow, stimeout, sstart, sreal, slast, swake, sfailAt>>
    /\ UNCHANGED restS

\* A variant that retries on every non-zero return code.
SshProbeEndsRetryingAll ==
    /\ spc = "probing"
    /\ \E code \in SshProbeCodes :
        /\ slast' = code
        /\ IF code # 0
           THEN /\ spc' = "sleeping"
                /\ swake' = snow + SSH_CONNECTION_TIME_BETWEEN_TRIES
                /\ sfailAt' = snow
                /\ UNCHANGED <<sreal, serr>>
           ELSE /\ spc' = "returned"
                /\ sreal' = sreal + 1
                /\ UNCHANGED <<swake, sfailAt, serr>>
    /\ UNCHANGED <<snow, stimeout, sstart, sprobes>>
    /\ UNCHANGED restS

\* The probe process completed: 255 sleeps and continues, 0 spawns the real
\* session with Popen and returns it, any other code raises RuntimeError.
SshProbeEnds ==
    /\ spc = "probing"
    /\ \E code \in SshProbeCodes :
        /\ slast' = code
        /\ IF code = 255
           THEN /\ spc' = "sleeping"
                /\ swake' = snow + SSH_CONNECTION_TIME_BETWEEN_TRIES
                /\ sfailAt' = snow
                /\ UNCHANGED <<sreal, serr>>
           ELSE IF code = 0
           THEN /\ spc' = "returned"
                /\ sreal' = sreal + 1
                /\ UNCHANGED <<swake, sfailAt, serr>>
           ELSE /\ spc' = "raised"
                /\ serr' = "code"
                /\ UNCHANGED <<sreal, swake, sfailAt>>
    /\ UNCHANGED <<snow, stimeout, sstart, sprobes>>
    /\ UNCHANGED restS

\* subprocess.run(..., timeout=SSH_CONNECTION_WAIT_TIME) raises
\* TimeoutExpired when the probe does not complete in time.
SshProbeExpires ==
    /\ spc = "probing"
    /\ spc' = "raised"
    /\ serr' = "expired"
    /\ UNCHANGED <<snow, stimeout, sstart, sprobes, sreal, slast, swake, sfailAt>>
    /\ UNCHANGED restS

\* time.sleep(SSH_CONNECTION_TIME_BETWEEN_TRIES) returns; "continue".
SshSleepDone ==
    /\ spc = "sleeping"
    /\ snow >= swake
    /\ spc' = "loop"
    /\ UNCHANGED <<snow, stimeout, sstart, sprobes, sreal, slast, swake, sfailAt, serr>>
    /\ UNCHANGED restS


\* ---------------------------------------------------------- monitor client

MonInit ==
    /\ mcur = 0
    /\ mcbs = [i \in MonIds |-> << >>]
    /\ mpc = "idle" /\ mreq = 0 /\ mid = -1
    /\ mcbid = [c \in MonCallbacks |-> -1]
    /\ mwritten = {}
    /\ mreplies = [i \in MonIds |-> 0]
    /\ mextra = 0
    /\ minbox = << >>
    /\ rdpc = "read" /\ rdmsg = -1 /\ rdidx = 1 /\ rdsnap = {}
    /\ minv = [c \in MonCallbacks |-> << >>]
    /\ mdone = [i \in MonIds |-> 0]

SeqRange(q) == {q[i] : i \in 1..Len(q)}

\* register_callback(id, callback) for an integer id: append to the id's list.
RegisterCallback(i, c) == mcbs' = [mcbs EXCEPT ![i] = Append(@, c)]

\* send_async, "id = self.__allocate_id()": the id is current_id, which is
\* then incremented.
MonAllocateId ==
    /\ mpc = "idle" /\ mreq < MaxReqs
    /\ mreq' = mreq + 1
    /\ mid' = mcur
    /\ mcur' = mcur + 1
    /\ mcbid' = [mcbid EXCEPT ![mreq + 1] = mcur]
    /\ mpc' = "allocated"
    /\ UNCHANGED <<mcbs, mwritten, mreplies, mextra, minbox, rdpc, rdmsg, rdidx,
                   rdsnap, minv, mdone>>
    /\ UNCHANGED restM

\* send_async, "self.register_callback(id, callback)".
MonRegisterOwn ==
    /\ mpc = "allocated"
    /\ RegisterCallback(mid, mreq)
    /\ mpc' = "registered"
    /\ UNCHANGED <<mcur, mreq, mid, mcbid, mwritten, mreplies, mextra, minbox,
                   rdpc, rdmsg, rdidx, rdsnap, minv, mdone>>
    /\ UNCHANGED restM

\* send_async, "self.__send_msg(msg)": the request is on the socket.
MonSendMsg ==
    /\ mpc = "registered"
    /\ mwritten' = mwritten \cup {mid}
    /\ mpc' = "idle"
    /\ mid' = -1
    /\ UNCHANGED <<mcur, mcbs, mreq, mcbid, mreplies, mextra, minbox,
                   rdpc, rdmsg, rdidx, rdsnap, minv, mdone>>
    /\ UNCHANGED restM

\* register_callback called by the program itself with an integer id:
\* callback 0 is added to the list of any id.
MonRegisterExtra ==
    /\ mpc = "idle" /\ mextra < MaxExtra
    /\ \E i \in MonIds : RegisterCallback(i, 0)
    /\ mextra' = mextra + 1
    /\ UNCHANGED <<mcur, mpc, mreq, mid, mcbid, mwritten, mreplies, minbox,
                   rdpc, rdmsg, rdidx, rdsnap, minv, mdone>>
    /\ UNCHANGED restM

\* The hypervisor answers a request it has received, in any order.
QemuReplies ==
    /\ \E i \in mwritten :
        /\ mreplies[i] = 0
        /\ mreplies' = [mreplies EXCEPT ![i] = 1]
        /\ minbox' = Append(minbox, i)
    /\ UNCHANGED <<mcur, mcbs, mpc, mreq, mid, mcbid, mwritten, mextra,
                   rdpc, rdmsg, rdidx, rdsnap, minv, mdone>>
    /\ UNCHANGED restM

\* A reply carrying an id that was already answered arrives.
QemuRepeatsReply ==
    /\ \A i \in MonIds : mreplies[i] <= 1
    /\ \E i \in mwritten :
        /\ mreplies[i] = 1
        /\ mreplies' = [mreplies EXCEPT ![i] = 2]
        /\ minbox' = Append(minbox, i)
    /\ UNCHANGED <<mcur, mcbs, mpc, mreq, mid, mcbid, mwritten, mextra,
                   rdpc, rdmsg, rdidx, rdsnap, minv, mdone>>
    /\ UNCHANGED restM

\* __start: readline() returns a message with an "id"; the for loop begins
\* on self.id_callbacks[msg["id"]].
ReaderReads ==
    /\ rdpc = "read" /\ Len(minbox) > 0
    /\ rdmsg' = Head(minbox)
    /\ minbox' = Tail(minbox)
    /\ rdidx' = 1
    /\ rdsnap' = SeqRange(mcbs[Head(minbox)])
    /\ rdpc' = "loop"
    /\ UNCHANGED <<mcur, mcbs, mpc, mreq, mid, mcbid, mwritten, mreplies, mextra,
                   minv, mdone>>
    /\ UNCHANGED restM

\* __start: one iteration, "callback(msg)".  The loop walks the list object
\* itself, so an entry appended meanwhile is reached too.
ReaderCalls ==
    /\ rdpc = "loop" /\ rdidx <= Len(mcbs[rdmsg])
    /\ minv' = [minv EXCEPT ![mcbs[rdmsg][rdidx]] = Append(@, rdmsg)]
    /\ rdidx' = rdidx + 1
    /\ UNCHANGED <<mcur, mcbs, mpc, mreq, mid, mcbid, mwritten, mreplies, mextra,
                   minbox, rdpc, rdmsg, rdsnap, mdone>>
    /\ UNCHANGED restM

\* __start: the list is exhausted and the for loop ends.
ReaderLoopEnds ==
    /\ rdpc = "loop" /\ rdidx > Len(mcbs[rdmsg])
    /\ rdpc' = "del"
    /\ UNCHANGED <<mcur, mcbs, mpc, mreq, mid, mcbid, mwritten, mreplies, mextra,
                   minbox, rdmsg, rdidx, rdsnap, minv, mdone>>
    /\ UNCHANGED restM

\* A variant of the reader without "del self.id_callbacks[msg["id"]]".
ReaderKeepsEntry ==
    /\ rdpc = "del"
    /\ mdone' = [mdone EXCEPT ![rdmsg] = @ + 1]
    /\ rdpc' = "read"
    /\ rdmsg' = -1 /\ rdidx' = 1 /\ rdsnap' = {}
    /\ UNCHANGED <<mcur, mcbs, mpc, mreq, mid, mcbid, mwritten, mreplies, mextra,
                   minbox, minv>>
    /\ UNCHANGED restM

\* __start: "del self.id_callbacks[msg["id"]]", then the next readline().
ReaderDeletes ==
    /\ rdpc = "del"
    /\ mcbs' = [mcbs EXCEPT ![rdmsg] = << >>]
    /\ mdone' = [mdone EXCEPT ![rdmsg] = @ + 1]
    /\ rdpc' = "read"
    /\ rdmsg' = -1 /\ rdidx' = 1 /\ rdsnap' = {}
    /\ UNCHANGED <<mcur, mpc, mreq, mid, mcbid, mwritten, mreplies, mextra,
                   minbox, minv>>
    /\ UNCHANGED restM


\* ------------------------------------------------- concurrent send_sync calls

SenderInit ==
    /\ acur = 0
    /\ apc = [t \in Senders |-> "idle"]
    /\ aret = [t \in Senders |-> -1]
    /\ atmp = [t \in Senders |-> -1]
    /\ acbs = [i \in 0..NumSenders |-> {}]
    /\ awire = {}
    /\ aresp = [t \in Senders |-> 0]

\* __allocate_id, "ret = self.current_id".
AllocLoadRet(t) ==
    /\ apc[t] = "idle"
    /\ aret' = [aret EXCEPT ![t] = acur]
    /\ apc' = [apc EXCEPT ![t] = "ret"]
    /\ UNCHANGED <<acur, atmp, acbs, awire, aresp>>
    /\ UNCHANGED restA

\* __allocate_id, "self.current_id += 1": the attribute is read ...
AllocLoadCur(t) ==
    /\ apc[t] = "ret"
    /\ atmp' = [atmp EXCEPT ![t] = acur]
    /\ apc' = [apc EXCEPT ![t] = "tmp"]
    /\ UNCHANGED <<acur, aret, acbs, awire, aresp>>
    /\ UNCHANGED restA

\* ... and the sum is stored; no lock is held in between.
AllocStoreCur(t) ==
    /\ apc[t] = "tmp"
    /\ acur' = atmp[t] + 1
    /\ apc' = [apc EXCEPT ![t] = "allocated"]
    /\ UNCHANGED <<aret, atmp, acbs, awire, aresp>>
    /\ UNCHANGED restA

\* send_async, "self.register_callback(id, callback)" with _sync_callback.
SyncRegister(t) ==
    /\ apc[t] = "allocated"
    /\ acbs' = [acbs EXCEPT ![aret[t]] = @ \cup {t}]
    /\ apc' = [apc EXCEPT ![t] = "registered"]
    /\ UNCHANGED <<acur, aret, atmp, awire, aresp>>
    /\ UNCHANGED restA

\* send_async, "self.__send_msg(msg)"; send_sync then blocks on the semaphore.
SyncSendMsg(t) ==
    /\ apc[t] = "registered"
    /\ awire' = awire \cup {<<aret[t], t>>}
    /\ apc' = [apc EXCEPT ![t] = "wait"]
    /\ UNCHANGED <<acur, aret, atmp, acbs, aresp>>
    /\ UNCHANGED restA

\* The hypervisor answers one request and the reader thread dispatches the
\* reply: every callback listed for its id stores it, then the entry is deleted.
SyncDispatch ==
    /\ \E w \in awire :
        /\ awire' = awire \ {w}
        /\ aresp' = [t \in Senders |->
                        IF t \in acbs[w[1]] /\ apc[t] # "returned" THEN w[2] ELSE aresp[t]]
        /\ acbs' = [acbs EXCEPT ![w[1]] = {}]
    /\ UNCHANGED <<acur, apc, aret, atmp>>
    /\ UNCHANGED restA

\* send_sync: the semaphore was released, "return response".
SyncReturn(t) ==
    /\ apc[t] = "wait" /\ aresp[t] # 0
    /\ apc' = [apc EXCEPT ![t] = "returned"]
    /\ UNCHANGED <<acur, aret, atmp, acbs, awire, aresp>>
    /\ UNCHANGED restA


\* ---------------------------------------------------------- monitor connect

ConnInit ==
    /\ kpc = "idle" /\ ktries = 0 /\ kwritten = << >> /\ kanswered = 0 /\ kread = 0

\* connect(): "start = time.time()" and the loop is entered.
ConnBegin ==
    /\ kpc = "idle"
    /\ kpc' = "connecting"
    /\ UNCHANGED <<ktries, kwritten, kanswered, kread>>
    /\ UNCHANGED restK

\* socket.create_connection raises ConnectionRefusedError: sleep, try again.
ConnRefused ==
    /\ kpc = "connecting" /\ ktries < MaxConnTries
    /\ ktries' = ktries + 1
    /\ UNCHANGED <<kpc, kwritten, kanswered, kread>>
    /\ UNCHANGED restK

\* The loop ends after _QMP_CONNECTION_TIMEOUT: ConnectionRefusedError.
ConnGivesUp ==
    /\ kpc = "connecting" /\ ktries > 0
    /\ kpc' = "failed"
    /\ UNCHANGED <<ktries, kwritten, kanswered, kread>>
    /\ UNCHANGED restK

\* socket.create_connection succeeds; self.file = self.sock.makefile("rwb").
ConnEstablished ==
    /\ kpc = "connecting"
    /\ kpc' = "socket"
    /\ UNCHANGED <<ktries, kwritten, kanswered, kread>>
    /\ UNCHANGED restK

\* "self.__send_msg({"execute": "qmp_capabilities"})".
ConnSendCapabilities ==
    /\ kpc = "socket"
    /\ kwritten' = Append(kwritten, "qmp_capabilities")
    /\ kpc' = "sent"
    /\ UNCHANGED <<ktries, kanswered, kread>>
    /\ UNCHANGED restK

\* The reader thread is started and connect() returns.
ConnReturns ==
    /\ kpc = "sent"
    /\ kpc' = "connected"
    /\ UNCHANGED <<ktries, kwritten, kanswered, kread>>
    /\ UNCHANGED restK

\* A command is sent by the caller of connect() (send_async, __send_msg).
ConnClientSends ==
    /\ kpc = "connected" /\ Len(kwritten) <= MaxCmds
    /\ kwritten' = Append(kwritten, "command")
    /\ UNCHANGED <<kpc, ktries, kanswered, kread>>
    /\ UNCHANGED restK

\* The hypervisor answers the oldest message it has not answered yet.
ConnQemuAnswers ==
    /\ kanswered < Len(kwritten)
    /\ kanswered' = kanswered + 1
    /\ UNCHANGED <<kpc, ktries, kwritten, kread>>
    /\ UNCHANGED restK

\* __start: the reader thread reads the greeting or an answer.
ConnReaderReads ==
    /\ kpc = "connected"
    /\ kread < 1 + kanswered
    /\ kread' = kread + 1
    /\ UNCHANGED <<kpc, ktries, kwritten, kanswered>>
    /\ UNCHANGED restK


\* ----------------------------------------------------- shared-folder workers

FolderInit ==
    /\ fpc = "new" /\ fmaps = 0 /\ fnext = 1 /\ flist = << >> /\ fidx = 1
    /\ fstate = [w \in Folders |-> "unstarted"]
    /\ fjoined = {}
    /\ fpeak = 0

FolderRunning == {w \in Folders : fstate[w] = "running"}

\* A variant of the test with the limit one too high.
MustJoinFirstOffByOne == Len(flist) > MAX_CONCURRENT_SSHFS + 1

\* "if len(sshfs_threads) > MAX_CONCURRENT_SSHFS:".
MustJoinFirst == Len(flist) > MAX_CONCURRENT_SSHFS

\* run() reaches the loop with some number of shared-folder mappings.
FolderBegin ==
    /\ fpc = "new"
    /\ \E n \in 0..MaxFolders : fmaps' = n
    /\ fpc' = "loop"
    /\ UNCHANGED <<fnext, flist, fidx, fstate, fjoined, fpeak>>
    /\ UNCHANGED restF

\* Thread.join() of worker w returns or re-raises the worker's exception.
FolderJoin(w) ==
    /\ fstate[w] \in {"finished", "failed"}
    /\ IF fstate[w] = "failed"
       THEN fpc' = "raised" /\ UNCHANGED fjoined
       ELSE fjoined' = fjoined \cup {w} /\ UNCHANGED fpc

\* Loop body, "sshfs_threads.pop(0).join()" when the list is too long.
FolderPopJoin ==
    /\ fpc = "loop" /\ fnext <= fmaps /\ MustJoinFirst
    /\ FolderJoin(Head(flist))
    /\ flist' = Tail(flist)
    /\ UNCHANGED <<fmaps, fnext, fidx, fstate, fpeak>>
    /\ UNCHANGED restF

\* Loop body, the worker of the mapping is appended and started.
FolderStart ==
    /\ fpc = "loop" /\ fnext <= fmaps /\ ~MustJoinFirst
    /\ flist' = Append(flist, fnext)
    /\ fstate' = [fstate EXCEPT ![fnext] = "running"]
    /\ fpeak' = IF Cardinality(FolderRunning) + 1 > fpeak
                THEN Cardinality(FolderRunning) + 1 ELSE fpeak
    /\ fnext' = fnext + 1
    /\ UNCHANGED <<fpc, fmaps, fidx, fjoined>>
    /\ UNCHANGED restF

\* The for loop over the mappings ends.
FolderLoopEnds ==
    /\ fpc = "loop" /\ fnext > fmaps
    /\ fpc' = "final"
    /\ UNCHANGED <<fmaps, fnext, flist, fidx, fstate, fjoined, fpeak>>
    /\ UNCHANGED restF

\* "for sshfs_thread in sshfs_threads: sshfs_thread.join()".
FolderFinalJoin ==
    /\ fpc = "final" /\ fidx <= Len(flist)
    /\ FolderJoin(flist[fidx])
    /\ fidx' = fidx + 1
    /\ UNCHANGED <<fmaps, fnext, flist, fstate, fpeak>>
    /\ UNCHANGED restF

\* The join loop ends; run() goes on to the console or the hypervisor wait.
FolderProceed ==
    /\ fpc = "final" /\ fidx > Len(flist)
    /\ fpc' = "proceed"
    /\ UNCHANGED <<fmaps, fnext, flist, fidx, fstate, fjoined, fpeak>>
    /\ UNCHANGED restF

\* do_sshfs_mount returns or raises in worker w.  Workers are followed until
\* run() has left the loops with an exception.
WorkerEnds(w) ==
    /\ fstate[w] = "running" /\ fpc # "raised"
    /\ \E ok \in BOOLEAN :
        fstate' = [fstate EXCEPT ![w] = IF ok THEN "finished" ELSE "failed"]
    /\ UNCHANGED <<fpc, fmaps, fnext, flist, fidx, fjoined, fpeak>>
    /\ UNCHANGED restF

\* --------------------------------------------------------- process discovery

ScanInit ==
    /\ ppc = "idle" /\ ptimeout = 0 /\ pstart = 0 /\ pwake = 0
    /\ pprocAt = -1 /\ pfound = FALSE

\* find_transient_instances(name, timeout=T): search_start_time = time.time().
ScanCall ==
    /\ ppc = "idle"
    /\ \E t \in 0..MaxScanTimeout : ptimeout' = t
    /\ pstart' = snow
    /\ ppc' = "loop"
    /\ UNCHANGED <<pwake, pprocAt, pfound>>
    /\ UNCHANGED restP

\* A transient instance with the requested name is started.
ScanProcStarts ==
    /\ ppc # "idle" /\ pprocAt = -1
    /\ pprocAt' = snow
    /\ UNCHANGED <<ppc, ptimeout, pstart, pwake, pfound>>
    /\ UNCHANGED restP

\* "while time.time() - search_start_time < timeout": one full scan of /proc,
\* then break with the matches, or sleep; when the test fails the (empty)
\* list is returned.
ScanLoop ==
    /\ ppc = "loop"
    /\ IF snow - pstart < ptimeout
       THEN IF pprocAt >= 0
            THEN ppc' = "returned" /\ pfound' = TRUE /\ UNCHANGED pwake
            ELSE /\ ppc' = "sleeping"
                 /\ pwake' = snow + SSH_CONNECTION_TIME_BETWEEN_TRIES
                 /\ UNCHANGED pfound
       ELSE ppc' = "returned" /\ UNCHANGED <<pwake, pfound>>
    /\ UNCHANGED <<ptimeout, pstart, pprocAt>>
    /\ UNCHANGED restP

\* time.sleep(delay_between) returns.
ScanSleepDone ==
    /\ ppc = "sleeping" /\ snow >= pwake
    /\ ppc' = "loop"
    /\ UNCHANGED <<ptimeout, pstart, pwake, pprocAt, pfound>>
    /\ UNCHANGED restP


\* ------------------------------------------------------- iterating vmstates

IterInit ==
    /\ ipc = "new"
    /\ ikind = [v \in Vms |-> "hidden"]
    /\ ipos = 0 /\ iext = {} /\ iheld = 0
    /\ iyields = [v \in Vms |-> 0]
    /\ iskip = [v \in Vms |-> "none"]

\* lock_file after a failed non-blocking flock:
\* "if time.time() - start < timeout: time.sleep(check_interval)".
LockWouldSleep(elapsed, timeout) == elapsed < timeout

\* vmstates(lock_timeout=0): os.listdir(self.path) of a store with any entries.
IterListdir ==
    /\ ipc = "new"
    /\ \E k \in [Vms -> {"hidden", "noconfig", "unparseable", "ok"}] : ikind' = k
    /\ ipc' = "next"
    /\ UNCHANGED <<ipos, iext, iheld, iyields, iskip>>
    /\ UNCHANGED restI

\* Another process takes or drops the flock of an entry's config.
IterExtLock(v) ==
    /\ ipc \notin {"new", "done", "raised"}
    /\ ikind[v] \in {"unparseable", "ok"} /\ iheld # v
    /\ iext' = IF v \in iext THEN iext \ {v} ELSE iext \cup {v}
    /\ UNCHANGED <<ipc, ikind, ipos, iheld, iyields, iskip>>
    /\ UNCHANGED restI

\* The for loop takes the next name: entries that are no potential vmstate
\* directory are passed over; lock_vmstate_by_name raises TransientError for a
\* directory without config, which "except Exception" logs and passes over.
IterNext ==
    /\ ipc = "next"
    /\ IF ipos = NumVms
       THEN ipc' = "done" /\ UNCHANGED <<ipos, iskip>>
       ELSE /\ ipos' = ipos + 1
            /\ CASE ikind[ipos + 1] = "hidden" ->
                      iskip' = [iskip EXCEPT ![ipos + 1] = "hidden"] /\ UNCHANGED ipc
                 [] ikind[ipos + 1] = "noconfig" ->
                      iskip' = [iskip EXCEPT ![ipos + 1] = "error"] /\ UNCHANGED ipc
                 [] OTHER -> ipc' = "flock" /\ UNCHANGED iskip
    /\ UNCHANGED <<ikind, iext, iheld, iyields>>
    /\ UNCHANGED restI

\* lock_file(cfg_path, "r", 0): the non-blocking flock succeeds, or fails and
\* the OSError becomes TransientVmStoreLockHeld, which vmstates passes over.
IterFlock ==
    /\ ipc = "flock"
    /\ IF ipos \notin iext
       THEN iheld' = ipos /\ ipc' = "load" /\ UNCHANGED iskip
       ELSE \E elapsed \in 0..1 :
               IF LockWouldSleep(elapsed, 0)
               THEN ipc' = "sleeping" /\ UNCHANGED <<iheld, iskip>>
               ELSE /\ ipc' = "next"
                    /\ iskip' = [iskip EXCEPT ![ipos] = "locked"]
                    /\ UNCHANGED iheld
    /\ UNCHANGED <<ikind, ipos, iext, iyields>>
    /\ UNCHANGED restI

\* A variant of the loading step without vmstates' "except Exception".
IterLoadUncaught ==
    /\ ipc = "load"
    /\ IF ikind[ipos] = "ok"
       THEN /\ iyields' = [iyields EXCEPT ![ipos] = @ + 1]
            /\ ipc' = "consuming"
            /\ UNCHANGED <<iheld, iskip>>
       ELSE /\ iheld' = 0
            /\ iskip' = [iskip EXCEPT ![ipos] = "error"]
            /\ ipc' = "raised"
            /\ UNCHANGED iyields
    /\ UNCHANGED <<ikind, ipos, iext>>
    /\ UNCHANGED restI

\* Under the lock: get_vmstate_by_name returns the state, which is yielded,
\* or None, and the AssertionError leaves lock_file (closing the descriptor)
\* and is logged and passed over by "except Exception".
IterLoad ==
    /\ ipc = "load"
    /\ IF ikind[ipos] = "ok"
       THEN /\ iyields' = [iyields EXCEPT ![ipos] = @ + 1]
            /\ ipc' = "consuming"
            /\ UNCHANGED <<iheld, iskip>>
       ELSE /\ iheld' = 0
            /\ iskip' = [iskip EXCEPT ![ipos] = "error"]
            /\ ipc' = "next"
            /\ UNCHANGED iyields
    /\ UNCHANGED <<ikind, ipos, iext>>
    /\ UNCHANGED restI

\* The consumer asks for the next state: the with-blocks end and the
\* descriptor is closed.
IterResume ==
    /\ ipc = "consuming"
    /\ iheld' = 0
    /\ ipc' = "next"
    /\ UNCHANGED <<ikind, ipos, iext, iyields, iskip>>
    /\ UNCHANGED restI


\* --------------------------------------------- the image a commit promotes

CommitImgInit ==
    /\ cpc = "new"
    /\ clisting = <<>> /\ cimages = <<>> /\ cconverted = -1

\* The orders os.listdir may return the files of a set in.
Listings(files) ==
    {l \in [1..Cardinality(files) -> files] :
        \A i, j \in 1..Cardinality(files) : i # j => l[i] # l[j]}

\* The images of a listing: every file but "config", in the listing's order.
ImagesOf(l) == SelectSeq(l, LAMBDA f : f # -1)

\* get_vmstate_by_name: os.listdir(dir) of a VM created with disk 0 and any
\* number of extra disks; the order is the file system's.
CommitListdir ==
    /\ cpc = "new"
    /\ \E e \in 0..MaxExtraDisks : \E l \in Listings({-1} \cup 0..e) : clisting' = l
    /\ cpc' = "listed"
    /\ UNCHANGED <<cimages, cconverted>>
    /\ UNCHANGED restC

\* get_vmstate_by_name: "for filename in os.listdir(dir)", skipping "config".
CommitLoadImages ==
    /\ cpc = "listed"
    /\ cimages' = ImagesOf(clisting)
    /\ cpc' = "loaded"
    /\ UNCHANGED <<clisting, cconverted>>
    /\ UNCHANGED restC

\* commit_vmstate: "primary_image = state.images[0]" is what is converted.
CommitPrimary ==
    /\ cpc = "loaded"
    /\ cconverted' = cimages[1]
    /\ cpc' = "committed"
    /\ UNCHANGED <<clisting, cimages>>
    /\ UNCHANGED restC


\* ------------------------------------------------- Imagefile validation

\* The instructions of the grammar, with what validation reads of them: the
\* source of FROM (scratch or an image) and whether a PARTITION mounts "/".
FromKinds == {"FROM scratch", "FROM image"}
DiskKinds == {"DISK"}
PartitionKinds == {"PARTITION /", "PARTITION"}
ExecuteKinds == {"RUN", "COPY", "ADD", "INSPECT"}
Instructions == FromKinds \cup DiskKinds \cup PartitionKinds \cup ExecuteKinds

BuilderInit ==
    /\ bpc = "new" /\ bprog = <<>> /\ berr = ""

\* __instruction_type: the instructions of one class, in order.
InstructionType(prog, kinds) == SelectSeq(prog, LAMBDA i : i \in kinds)

\* A variant of the FROM count that only notices a missing FROM.
FromCountOnlyMissing(prog) == Len(InstructionType(prog, FromKinds)) = 0

\* __validate: "if len(from_instructions) != 1".
FromCountWrong(prog) == Len(InstructionType(prog, FromKinds)) # 1

\* A variant of the count checks without the test for a partition at "/".
CountErrorNoRootTest(prog) ==
    LET froms == InstructionType(prog, FromKinds)
        disks == InstructionType(prog, DiskKinds)
        parts == InstructionType(prog, PartitionKinds)
    IN  IF FromCountWrong(prog)
        THEN "Exactly one FROM instruction must appear per Imagefile"
        ELSE IF Len(disks) > 1
        THEN "Only one DISK instruction can appear per Imagefile"
        ELSE IF froms[1] = "FROM scratch"
        THEN IF Len(disks) = 0
             THEN "Exactly one DISK instruction must appear in images built from scratch"
             ELSE IF Len(parts) = 0
             THEN "At least one PARTITION instruction must appear in images built from scratch"
             ELSE ""
        ELSE IF Len(disks) > 0 \/ Len(parts) > 0
        THEN "DISK and PARTITION instructions can only appear on images built from scratch"
        ELSE ""

\* __validate up to the state machine: the message raised, "" when none.
CountError(prog) ==
    LET froms == InstructionType(prog, FromKinds)
        disks == InstructionType(prog, DiskKinds)
        parts == InstructionType(prog, PartitionKinds)
    IN  IF FromCountWrong(prog)
        THEN "Exactly one FROM instruction must appear per Imagefile"
        ELSE IF Len(disks) > 1
        THEN "Only one DISK instruction can appear per Imagefile"
        ELSE IF froms[1] = "FROM scratch"
        THEN IF Len(disks) = 0
             THEN "Exactly one DISK instruction must appear in images built from scratch"
             ELSE IF Len(parts) = 0
             THEN "At least one PARTITION instruction must appear in images built from scratch"
             ELSE IF ~ \E i \in 1..Len(parts) : parts[i] = "PARTITION /"
             THEN "At least one PARTITION instruction must mount at /"
             ELSE ""
        ELSE IF Len(disks) > 0 \/ Len(parts) > 0
        THEN "DISK and PARTITION instructions can only appear on images built from scratch"
        ELSE ""

ImagefileSection == {"FROM", "DISK", "PARTITION", "EXECUTE"}

\* A variant of the state machine that takes a FROM in any section.
SectionAfterFromAnywhere(section, instr) ==
    IF instr \in FromKinds
    THEN "FROM"
    ELSE IF instr \in DiskKinds
    THEN IF section # "FROM"
         THEN "DISK instruction must appear immediately after FROM instruction"
         ELSE "DISK"
    ELSE IF instr \in PartitionKinds
    THEN IF section # "DISK" /\ section # "PARTITION"
         THEN "PARTITION instructions must appear immediately after DISK instruction"
         ELSE "PARTITION"
    ELSE "EXECUTE"

\* A variant of the state machine that refuses a PARTITION only right after FROM.
SectionAfterLoosePartition(section, instr) ==
    IF instr \in FromKinds
    THEN IF section # "None"
         THEN "FROM instruction must appear before any other instructions"
         ELSE "FROM"
    ELSE IF instr \in DiskKinds
    THEN IF section # "FROM"
         THEN "DISK instruction must appear immediately after FROM instruction"
         ELSE "DISK"
    ELSE IF instr \in PartitionKinds
    THEN IF section = "FROM" \/ section = "None"
         THEN "PARTITION instructions must appear immediately after DISK instruction"
         ELSE "PARTITION"
    ELSE "EXECUTE"

\* One turn of the state machine's loop: the next section, or the message of
\* the RuntimeError raised. section is "None" before the first instruction.
SectionAfter(section, instr) ==
    IF instr \in FromKinds
    THEN IF section # "None"
         THEN "FROM instruction must appear before any other instructions"
         ELSE "FROM"
    ELSE IF instr \in DiskKinds
    THEN IF section # "FROM"
         THEN "DISK instruction must appear immediately after FROM instruction"
         ELSE "DISK"
    ELSE IF instr \in PartitionKinds
    THEN IF section # "DISK" /\ section # "PARTITION"
         THEN "PARTITION instructions must appear immediately after DISK instruction"
         ELSE "PARTITION"
    ELSE "EXECUTE"

\* "for instr in self.instructions" from instruction i on: the message raised,
\* "" when the loop ends.
RECURSIVE OrderError(_, _, _)
OrderError(prog, i, section) ==
    IF i > Len(prog)
    THEN ""
    ELSE LET r == SectionAfter(section, prog[i])
         IN  IF r \in ImagefileSection THEN OrderError(prog, i + 1, r) ELSE r

\* ImageBuilder.__validate.
Validate(prog) ==
    IF CountError(prog) # "" THEN CountError(prog) ELSE OrderError(prog, 1, "None")

\* ImageBuilder.__init__: the Imagefile is read and parsed into instructions.
BuilderParse ==
    /\ bpc = "new"
    /\ \E n \in 0..MaxInstrs : \E prog \in [1..n -> Instructions] : bprog' = prog
    /\ bpc' = "parsed"
    /\ UNCHANGED berr
    /\ UNCHANGED restIB

\* ImageBuilder.__init__: self.__validate().
BuilderValidate ==
    /\ bpc = "parsed"
    /\ berr' = Validate(bprog)
    /\ bpc' = "validated"
    /\ UNCHANGED bprog
    /\ UNCHANGED restIB


\* ---------------------------------------------------------------- ImageSpec

ImageSpecInit ==
    /\ zpc = "new" /\ zspec = <<>> /\ zname = <<>> /\ ztoken = <<>>
    /\ zproto = "none" /\ zsource = <<>>

\* The texts specs are put together from: single characters and words.
SpecPieces ==
    { <<"a">>, <<",">>, <<"=">>, <<"\n">>,
      <<"h", "t", "t", "p">>, <<"h", "t", "t", "p", "s">>, <<"H", "T", "T", "P">> }

RECURSIVE Flatten(_)
Flatten(pieces) ==
    IF pieces = <<>> THEN <<>> ELSE Head(pieces) \o Flatten(Tail(pieces))

\* The characters of s from..to are all other than c.
Without(s, from, to, c) == \A i \in from..to : s[i] # c

\* "$" of a pattern without re.MULTILINE: after k characters of s the text
\* ends, or only its final newline is left.
AtEnd(s, k) == k = Len(s) \/ (k = Len(s) - 1 /\ s[Len(s)] = "\n")

\* "(?:,(.+?)=(.+))?$" after a name of k characters: the positions e of the
\* "=" for which the group matches (a "," first, then one or more characters
\* other than newline on either side of the "=", up to "$").
GroupEquals(s, k) ==
    { e \in (k + 3)..(Len(s) - 1) :
        /\ s[k + 1] = "," /\ s[e] = "="
        /\ Without(s, k + 2, e - 1, "\n")
        /\ \E j \in (e + 1)..Len(s) : AtEnd(s, j) /\ Without(s, e + 1, j, "\n") }

\* _IMAGE_SPEC.match(spec): r"^([^,]+?)(?:,(.+?)=(.+))?$". The name is the
\* shortest that lets the rest match, the protocol the shortest, the source
\* the longest. matched is FALSE for None; proto is <<>> for a None group.
ImageSpecMatch(s) ==
    LET names == { k \in 1..Len(s) :
                     /\ Without(s, 1, k, ",")
                     /\ (GroupEquals(s, k) # {} \/ AtEnd(s, k)) }
    IN  IF names = {}
        THEN [matched |-> FALSE, name |-> <<>>, proto |-> <<>>, source |-> <<>>]
        ELSE LET k == CHOOSE n \in names : \A m \in names : n <= m
             IN  IF GroupEquals(s, k) = {}
                 THEN [matched |-> TRUE, name |-> SubSeq(s, 1, k),
                       proto |-> <<>>, source |-> <<>>]
                 ELSE LET e == CHOOSE x \in GroupEquals(s, k) :
                                   \A y \in GroupEquals(s, k) : x <= y
                          ends == { j \in (e + 1)..Len(s) :
                                      AtEnd(s, j) /\ Without(s, e + 1, j, "\n") }
                          j == CHOOSE x \in ends : \A y \in ends : x >= y
                      IN  [matched |-> TRUE, name |-> SubSeq(s, 1, k),
                           proto |-> SubSeq(s, k + 2, e - 1),
                           source |-> SubSeq(s, e + 1, j)]

\* re.IGNORECASE on the letters the specs are made of.
LowerCase(c) ==
    CASE c = "H" -> "h" [] c = "T" -> "t" [] c = "P" -> "p" [] OTHER -> c

\* The words the protocols' patterns are compiled from.
ProtocolWord(proto) ==
    CASE proto = "vagrant" -> <<"v", "a", "g", "r", "a", "n", "t">>
      [] proto = "http" -> <<"h", "t", "t", "p">>
      [] proto = "file" -> <<"f", "i", "l", "e">>

\* BaseImageProtocol.matches: self.regex.match(candidate) is not None, the
\* pattern being the protocol's word with re.IGNORECASE.
Matches(proto, candidate) ==
    /\ Len(candidate) >= Len(ProtocolWord(proto))
    /\ \A i \in 1..Len(ProtocolWord(proto)) :
           LowerCase(candidate[i]) = ProtocolWord(proto)[i]

\* _IMAGE_PROTOCOLS, in order.
ImageProtocols == <<"vagrant", "http", "file">>

\* ImageSpec(spec) for any spec put together from up to MaxPieces pieces.
ImageSpecNew ==
    /\ zpc = "new"
    /\ \E n \in 0..MaxPieces : \E pieces \in [1..n -> SpecPieces] :
         LET spec == Flatten(pieces)
             parsed == ImageSpecMatch(spec)
             found == { i \in 1..Len(ImageProtocols) :
                          Matches(ImageProtocols[i], parsed.proto) }
         IN  /\ zspec' = spec
             /\ IF ~parsed.matched
                THEN /\ zpc' = "invalid"
                     /\ UNCHANGED <<zname, ztoken, zproto, zsource>>
                ELSE IF parsed.proto = <<>>
                THEN /\ zpc' = "ok"
                     /\ zname' = parsed.name /\ zsource' = parsed.name
                     /\ zproto' = "vagrant" /\ UNCHANGED ztoken
                ELSE /\ zname' = parsed.name /\ zsource' = parsed.source
                     /\ ztoken' = parsed.proto
                     /\ IF found = {}
                        THEN zpc' = "unknown" /\ UNCHANGED zproto
                        ELSE /\ zpc' = "ok"
                             /\ zproto' = ImageProtocols[CHOOSE i \in found :
                                                            \A j \in found : i <= j]
    /\ UNCHANGED restZ


\* ------------------------------------------------------ RunConfig composition

\* The options of the configs: a list-valued one and scalar ones; "null" is
\* the value of a scalar that is not set.
ListOptions == {"qemu_args"}
ScalarOptions == {"image", "ssh_console"}
QemuArgLists == UNION {[1..n -> {"-smp", "-m"}] : n \in 0..MaxArgs}

EmptyConfig == [qemu_args |-> <<>>, image |-> "null", ssh_console |-> "null"]

ComposeInit ==
    /\ gpc = "new"
    /\ gcreate = EmptyConfig /\ gstart = EmptyConfig /\ grun = EmptyConfig

\* A variant of the composition that puts the start-side list first.
RunConfigStartFirst(c, s) ==
    [k \in ListOptions \cup ScalarOptions |->
        IF k \in ListOptions THEN s[k] \o c[k]
        ELSE IF s[k] # "null" THEN s[k] ELSE c[k]]

\* run_config_from_create_and_start: lists concatenate, create side first;
\* a scalar set on the start side overrides.
RunConfigFromCreateAndStart(c, s) ==
    [k \in ListOptions \cup ScalarOptions |->
        IF k \in ListOptions THEN c[k] \o s[k]
        ELSE IF s[k] # "null" THEN s[k] ELSE c[k]]

\* A RunConfig is composed from any CreateConfig (which names its image)
\* and any StartConfig (which has no image option).
ComposeRun ==
    /\ gpc = "new"
    /\ \E ca, sa \in QemuArgLists : \E cc, sc \in {"null", "true", "false"} :
         /\ gcreate' = [qemu_args |-> ca, image |-> "example-image", ssh_console |-> cc]
         /\ gstart' = [qemu_args |-> sa, image |-> "null", ssh_console |-> sc]
         /\ grun' = RunConfigFromCreateAndStart(gcreate', gstart')
    /\ gpc' = "composed"
    /\ UNCHANGED restG


\* ------------------------------------------------------- storage-safe names

NameInit ==
    /\ ypc = "new" /\ yname = <<>> /\ yenc = <<>> /\ ydec = <<>>

\* The characters names are made of here, as code points:
\* space, "%", "-", "/", "2", "D", "a" and e-acute (two bytes in UTF-8).
NameChars == {32, 37, 45, 47, 50, 68, 97, 233}

\* A variant of the safe characters that leaves "%" unquoted.
AlwaysSafeWithPercent(c) ==
    \/ c \in 48..57 \/ c \in 65..90 \/ c \in 97..122
    \/ c \in {95, 46, 45, 126, 37}

\* urllib.parse.quote's characters that are never quoted: letters, digits
\* and "_.-~".
AlwaysSafe(c) ==
    \/ c \in 48..57 \/ c \in 65..90 \/ c \in 97..122
    \/ c \in {95, 46, 45, 126}

\* str.encode("utf-8") of one character below U+0800.
Utf8Encode(c) ==
    IF c < 128 THEN <<c>> ELSE <<192 + (c \div 64), 128 + (c % 64)>>

\* The upper-case hexadecimal digit of n as a code point.
HexDigit(n) == IF n < 10 THEN 48 + n ELSE 55 + n

\* "%XX" for each byte of a sequence.
RECURSIVE PercentBytes(_)
PercentBytes(bytes) ==
    IF bytes = <<>> THEN <<>>
    ELSE <<37, HexDigit(Head(bytes) \div 16), HexDigit(Head(bytes) % 16)>>
             \o PercentBytes(Tail(bytes))

\* urllib.parse.quote(name, safe="").
RECURSIVE Quote(_)
Quote(name) ==
    IF name = <<>> THEN <<>>
    ELSE (IF AlwaysSafe(Head(name)) THEN <<Head(name)>>
          ELSE PercentBytes(Utf8Encode(Head(name)))) \o Quote(Tail(name))

\* str.replace("-", "%2D").
RECURSIVE ReplaceDash(_)
ReplaceDash(text) ==
    IF text = <<>> THEN <<>>
    ELSE (IF Head(text) = 45 THEN <<37, 50, 68>> ELSE <<Head(text)>>)
             \o ReplaceDash(Tail(text))

\* storage_safe_encode.
StorageSafeEncode(name) == ReplaceDash(Quote(name))

\* The value of a hexadecimal digit given as a code point, -1 for any other.
HexValue(c) ==
    IF c \in 48..57 THEN c - 48
    ELSE IF c \in 65..70 THEN c - 55
    ELSE IF c \in 97..102 THEN c - 87
    ELSE -1

\* urllib.parse.unquote_to_bytes: "%" and two hexadecimal digits become a
\* byte, every other character stays (a character above U+007F, which
\* unquote passes through, is kept as its negative).
RECURSIVE UnquoteToBytes(_)
UnquoteToBytes(text) ==
    IF text = <<>> THEN <<>>
    ELSE IF /\ Head(text) = 37 /\ Len(text) >= 3
            /\ HexValue(text[2]) >= 0 /\ HexValue(text[3]) >= 0
    THEN <<16 * HexValue(text[2]) + HexValue(text[3])>>
             \o UnquoteToBytes(SubSeq(text, 4, Len(text)))
    ELSE <<IF Head(text) < 128 THEN Head(text) ELSE 0 - Head(text)>>
             \o UnquoteToBytes(Tail(text))

\* bytes.decode("utf-8", "replace") for sequences of one and two bytes; a
\* byte that starts no such sequence becomes U+FFFD.
RECURSIVE Utf8Decode(_)
Utf8Decode(bytes) ==
    IF bytes = <<>> THEN <<>>
    ELSE IF Head(bytes) < 0
    THEN <<0 - Head(bytes)>> \o Utf8Decode(Tail(bytes))
    ELSE IF Head(bytes) < 128
    THEN <<Head(bytes)>> \o Utf8Decode(Tail(bytes))
    ELSE IF /\ Head(bytes) \in 194..223 /\ Len(bytes) >= 2 /\ bytes[2] \in 128..191
    THEN <<64 * (Head(bytes) - 192) + (bytes[2] - 128)>>
             \o Utf8Decode(SubSeq(bytes, 3, Len(bytes)))
    ELSE <<65533>> \o Utf8Decode(Tail(bytes))

\* storage_safe_decode: urllib.parse.unquote(name).
StorageSafeDecode(text) == Utf8Decode(UnquoteToBytes(text))

\* A name is encoded for the file system.
NameEncode ==
    /\ ypc = "new"
    /\ \E n \in 0..MaxNameLen : \E name \in [1..n -> NameChars] :
         yname' = name /\ yenc' = StorageSafeEncode(name)
    /\ ypc' = "encoded"
    /\ UNCHANGED ydec
    /\ UNCHANGED restY

\* The encoded name is decoded for display.
NameDecode ==
    /\ ypc = "encoded"
    /\ ydec' = StorageSafeDecode(yenc)
    /\ ypc' = "decoded"
    /\ UNCHANGED <<yname, yenc>>
    /\ UNCHANGED restY


\* --------------------------------------------------------- StreamDecompressor

DecompInit ==
    /\ dpc = "new" /\ dstream = <<>> /\ dfed = 0
    /\ dmethod = "none" /\ dchanged = FALSE

\* COMPRESSION_MAGIC, in the order of the dict.
CompressionMagic ==
    << [fmt |-> "gzip", magic |-> <<31, 139>>],
       [fmt |-> "bz2", magic |-> <<66, 90, 104>>],
       [fmt |-> "xz", magic |-> <<253, 55, 122, 88, 90, 0>>] >>

\* The bytes streams are made of: those of the gzip and bz2 magics.
StreamBytes == {31, 139, 66, 90, 104}

\* contents.startswith(magic).
StartsWith(contents, magic) ==
    /\ Len(contents) >= Len(magic)
    /\ SubSeq(contents, 1, Len(magic)) = magic

\* The loop of decompress over COMPRESSION_MAGIC: the first format whose
\* magic the contents start with, "plain" when there is none.
DetectFormat(contents) ==
    LET hits == {i \in 1..Len(CompressionMagic) :
                   StartsWith(contents, CompressionMagic[i].magic)}
    IN  IF hits = {} THEN "plain"
        ELSE CompressionMagic[CHOOSE i \in hits : \A j \in hits : i <= j].fmt

\* StreamDecompressor() for a stream that is about to be read.
DecompNew ==
    /\ dpc = "new"
    /\ \E n \in 1..MaxStream : \E stream \in [1..n -> StreamBytes] : dstream' = stream
    /\ dpc' = "streaming"
    /\ UNCHANGED <<dfed, dmethod, dchanged>>
    /\ UNCHANGED restD

\* decompress(contents) with the next n bytes of the stream.
Decompress(n) ==
    /\ dpc = "streaming"
    /\ dfed + n <= Len(dstream)
    /\ dfed' = dfed + n
    /\ dmethod' = IF dmethod = "none"
                  THEN DetectFormat(SubSeq(dstream, dfed + 1, dfed + n))
                  ELSE dmethod
    /\ dchanged' = (dchanged \/ (dmethod # "none" /\ dmethod' # dmethod))
    /\ UNCHANGED <<dpc, dstream>>
    /\ UNCHANGED restD


\* ------------------------------------------------------------ do_sshfs_mount

SshfsInit ==
    /\ hpc = "new" /\ hprovisioned = FALSE /\ hslow = FALSE
    /\ hdepth = 0 /\ hprovisions = 0 /\ hslowcalls = 0 /\ hlast = "none"

\* What the guest can answer to the mount script: it ends with code 0; it
\* ends with an error, which names a missing sshfs or not; the session hangs
\* until the timeout, after the sentinel was printed or before.
MountAnswers == {"exit0", "not_found", "other_error", "hang_done", "hang_early"}

\* _should_provision(is_provisioned, error).
ShouldProvision(is_provisioned, answer) ==
    IF is_provisioned THEN FALSE ELSE answer = "not_found"

\* do_sshfs_mount is called by run()'s worker: is_provisioned and is_slow
\* take their defaults.
SshfsCall ==
    /\ hpc = "new"
    /\ hpc' = "mount"
    /\ hdepth' = 1
    /\ UNCHANGED <<hprovisioned, hslow, hprovisions, hslowcalls, hlast>>
    /\ UNCHANGED restH

\* conn.communicate(script, timeout) and what follows it in the same call:
\* success, RuntimeError, provision_system, or, after a timeout without the
\* sentinel, the call of do_sshfs_mount(..., is_slow=True), whose
\* is_provisioned is the default again.
SshfsCommunicate ==
    /\ hpc = "mount"
    /\ \E answer \in MountAnswers :
         /\ hlast' = answer
         /\ CASE answer \in {"exit0", "hang_done"} ->
                   /\ hpc' = "mounted"
                   /\ UNCHANGED <<hprovisioned, hslow, hdepth, hprovisions, hslowcalls>>
              [] answer \in {"not_found", "other_error"} ->
                   IF ShouldProvision(hprovisioned, answer)
                   THEN /\ hpc' = "provision"
                        /\ hprovisions' = hprovisions + 1
                        /\ UNCHANGED <<hprovisioned, hslow, hdepth, hslowcalls>>
                   ELSE /\ hpc' = "error"
                        /\ UNCHANGED <<hprovisioned, hslow, hdepth, hprovisions, hslowcalls>>
              [] answer = "hang_early" ->
                   IF hslow
                   THEN /\ hpc' = "error"
                        /\ UNCHANGED <<hprovisioned, hslow, hdepth, hprovisions, hslowcalls>>
                   ELSE /\ hdepth < MaxDepth
                        /\ hpc' = "mount"
                        /\ hslow' = TRUE /\ hprovisioned' = FALSE
                        /\ hdepth' = hdepth + 1
                        /\ hslowcalls' = hslowcalls + 1
                        /\ UNCHANGED hprovisions
    /\ UNCHANGED restH

\* provision_system up to the script: /etc/os-release cannot be read or names
\* no known system (False, so RuntimeError), or a script is chosen.
SshfsProvisionSystem ==
    /\ hpc = "provision"
    /\ \E answer \in {"no_os_release", "unknown_system", "known_system"} :
         /\ hlast' = answer
         /\ hpc' = IF answer = "known_system" THEN "script" ELSE "error"
    /\ UNCHANGED <<hprovisioned, hslow, hdepth, hprovisions, hslowcalls>>
    /\ UNCHANGED restH

\* _do_provision: the script fails or times out (RuntimeError), or it ends
\* with code 0 and do_sshfs_mount(..., is_provisioned=True) is called, whose
\* is_slow is the default again.
SshfsDoProvision ==
    /\ hpc = "script"
    /\ \E answer \in {"script_failed", "script_timeout", "script_ok"} :
         /\ hlast' = answer
         /\ IF answer = "script_ok"
            THEN /\ hdepth < MaxDepth
                 /\ hpc' = "mount"
                 /\ hprovisioned' = TRUE /\ hslow' = FALSE
                 /\ hdepth' = hdepth + 1
            ELSE /\ hpc' = "error"
                 /\ UNCHANGED <<hprovisioned, hslow, hdepth>>
    /\ UNCHANGED <<hprovisions, hslowcalls>>
    /\ UNCHANGED restH


\* ----------------------------------------- find_transient_instances, entries

Pids == 1..NumPids

\* A listed process: not a transient process (no sentinel in its environ), or
\* a transient process whose descriptor is still empty, is not JSON, or is
\* the configuration written by its instance.  A key of the configuration is
\* absent, differs from the value searched for, or equals it.
KeyStates == {"absent", "other", "same"}

ProcEntries ==
    {[kind |-> k, vmstore |-> "absent", name |-> "absent", ssh_port |-> FALSE] :
         k \in {"foreign", "empty", "not_json"}}
    \cup [kind : {"config"}, vmstore : KeyStates, name : KeyStates, ssh_port : BOOLEAN]

EntryScanInit ==
    /\ opc = "new" /\ opos = 1 /\ oexited = {} /\ oinstances = {}
    /\ oprocs = [p \in Pids |-> [kind |-> "foreign", vmstore |-> "absent",
                                 name |-> "absent", ssh_port |-> FALSE]]
    /\ ofilter = [name |-> FALSE, vmstore |-> FALSE, with_ssh |-> FALSE]

\* find_transient_instances(name, with_ssh, None, vmstore) lists /proc.
EntryScanListdir ==
    /\ opc = "new"
    /\ oprocs' \in [Pids -> ProcEntries]
    /\ ofilter' \in [name : BOOLEAN, vmstore : BOOLEAN, with_ssh : BOOLEAN]
    /\ opc' = "environ"
    /\ UNCHANGED <<oexited, opos, oinstances>>
    /\ UNCHANGED restO

\* A listed process that was not examined yet exits: its /proc directory
\* disappears.
EntryExits ==
    /\ opc \in {"environ", "stat", "data"}
    /\ \E p \in opos..NumPids :
         /\ p \notin oexited
         /\ oexited' = oexited \cup {p}
    /\ UNCHANGED <<opc, oprocs, ofilter, opos, oinstances>>
    /\ UNCHANGED restO

\* continue: the next entry, or the end of the listing and the return.
EntryContinue ==
    /\ opos' = opos + 1
    /\ opc' = IF opos = NumPids THEN "returned" ELSE "environ"

\* isdir, _read_pid_environ under a bare except, and the sentinel test.
EntryReadEnviron ==
    /\ opc = "environ"
    /\ IF opos \in oexited \/ oprocs[opos].kind = "foreign"
       THEN EntryContinue
       ELSE opc' = "stat" /\ UNCHANGED opos
    /\ UNCHANGED <<oprocs, ofilter, oexited, oinstances>>
    /\ UNCHANGED restO

\* _read_pid_start_time: os.stat of the directory, outside any try.
EntryReadStartTime ==
    /\ opc = "stat"
    /\ opc' = IF opos \in oexited THEN "raised" ELSE "data"
    /\ UNCHANGED <<oprocs, ofilter, oexited, opos, oinstances>>
    /\ UNCHANGED restO

\* _read_pid_data: open of the descriptor and json.loads; only
\* JSONDecodeError is caught.
EntryReadData ==
    /\ opc = "data"
    /\ IF opos \in oexited
       THEN opc' = "raised" /\ UNCHANGED opos
       ELSE IF oprocs[opos].kind \in {"empty", "not_json"}
            THEN EntryContinue
            ELSE opc' = "filter" /\ UNCHANGED opos
    /\ UNCHANGED <<oprocs, ofilter, oexited, oinstances>>
    /\ UNCHANGED restO

\* The three filters.  The messages of the vmstore and name filters are
\* formatted from data["vmstore"] and data["name"] before the continue.
EntryFilter ==
    /\ opc = "filter"
    /\ LET data == oprocs[opos]
       IN  IF ofilter.vmstore /\ data.vmstore # "same"
           THEN IF data.vmstore = "absent"
                THEN opc' = "raised" /\ UNCHANGED <<opos, oinstances>>
                ELSE EntryContinue /\ UNCHANGED oinstances
           ELSE IF ofilter.name /\ data.name # "same"
           THEN IF data.name = "absent"
                THEN opc' = "raised" /\ UNCHANGED <<opos, oinstances>>
                ELSE EntryContinue /\ UNCHANGED oinstances
           ELSE IF ofilter.with_ssh /\ ~data.ssh_port
           THEN EntryContinue /\ UNCHANGED oinstances
           ELSE EntryContinue /\ oinstances' = oinstances \cup {opos}
    /\ UNCHANGED <<oprocs, ofilter, oexited>>
    /\ UNCHANGED restO


Init == BackendInit /\ VmInit /\ LockInit /\ RunInit /\ RunnerInit /\ EditorInit /\ SshInit /\ MonInit /\ SenderInit /\ ConnInit /\ FolderInit /\ ScanInit /\ IterInit /\ CommitImgInit /\ BuilderInit /\ ImageSpecInit /\ ComposeInit /\ NameInit /\ DecompInit /\ SshfsInit /\ EntryScanInit

NextRetrieve == \E p \in Procs : RetrieveStep(p) \/ Kill(p)

SpecRetrieve == Init /\ [][NextRetrieve]_vars

NextStore == \E p \in Procs : RetrieveStep(p) \/ CommitStep(p) \/ Kill(p)

SpecStore == Init /\ [][NextStore]_vars

NextBackend ==
    \E p \in Procs : RetrieveStep(p) \/ CommitStep(p) \/ BuildStep(p) \/ DeleteImage(p) \/ Kill(p)

SpecBackend == Init /\ [][NextBackend]_vars

NextCreate == \E p \in Procs : CreateStep(p) \/ VmKill(p)

SpecCreate == Init /\ [][NextCreate]_vars

NextVm == \E p \in Procs : CreateStep(p) \/ LockStep(p) \/ VmKill(p)

SpecVm == Init /\ [][NextVm]_vars

NextLock ==
    \/ \E l \in Lockers :
          \/ LockFile(l)
          \/ LockFlockOk(l)
          \/ LockFlockFail(l)
          \/ LockSleepDone(l)
          \/ LockBodyExits(l)
          \/ LockBodyRaises(l)
    \/ Tick

SpecLock == Init /\ [][NextLock]_vars

NextRun ==
    \/ RunStart
    \/ RunCreateImages
    \/ RunCopyIn
    \/ RunCopyInFails
    \/ RunPrepareOnly
    \/ RunStartQemu
    \/ RunRegisterHandler
    \/ RunPoll
    \/ RunSharedFolders
    \/ RunSharedFolderFails
    \/ RunQmpConnect
    \/ RunQmpConnectFails
    \/ RunConnectSsh
    \/ RunConnectSshFails
    \/ RunSetFlag
    \/ RunShutdownClean
    \/ RunShutdownTimeout
    \/ RunTerminate
    \/ RunPostSsh
    \/ RunWait
    \/ QemuDies
    \/ SigchldHandler

SpecRun == Init /\ [][NextRun]_vars

NextRunner ==
    \E r \in Runners :
        \/ RunnerStart(r)
        \/ ChildExits(r)
        \/ RunnerTerminate(r)
        \/ RunnerKill(r)
        \/ RunnerWait(r)

SpecRunner == Init /\ [][NextRunner]_vars

NextEditor ==
    \E e \in Editors :
        \/ EditorNew(e)
        \/ EditorSpawn(e)
        \/ EditorSetup(e)
        \/ EditorUse(e)
        \/ EditorClose(e)

SpecEditor == Init /\ [][NextEditor]_vars

NextSsh ==
    \/ SshConnect
    \/ SshLoop
    \/ SshProbeEnds
    \/ SshProbeExpires
    \/ SshSleepDone
    \/ SshTick

SpecSsh == Init /\ [][NextSsh]_vars

NextMon ==
    \/ MonAllocateId
    \/ MonRegisterOwn
    \/ MonSendMsg
    \/ MonRegisterExtra
    \/ QemuReplies
    \/ QemuRepeatsReply
    \/ ReaderReads
    \/ ReaderCalls
    \/ ReaderLoopEnds
    \/ ReaderDeletes

SpecMon == Init /\ [][NextMon]_vars

NextSender ==
    \/ SyncDispatch
    \/ \E t \in Senders :
        \/ AllocLoadRet(t)
        \/ AllocLoadCur(t)
        \/ AllocStoreCur(t)
        \/ SyncRegister(t)
        \/ SyncSendMsg(t)
        \/ SyncReturn(t)

SpecSender == Init /\ [][NextSender]_vars

NextConn ==
    \/ ConnBegin
    \/ ConnRefused
    \/ ConnGivesUp
    \/ ConnEstablished
    \/ ConnSendCapabilities
    \/ ConnReturns
    \/ ConnClientSends
    \/ ConnQemuAnswers
    \/ ConnReaderReads

SpecConn == Init /\ [][NextConn]_vars

NextFolder ==
    \/ FolderBegin
    \/ FolderPopJoin
    \/ FolderStart
    \/ FolderLoopEnds
    \/ FolderFinalJoin
    \/ FolderProceed
    \/ \E w \in Folders : WorkerEnds(w)

SpecFolder == Init /\ [][NextFolder]_vars

NextScan ==
    \/ ScanCall
    \/ ScanProcStarts
    \/ ScanLoop
    \/ ScanSleepDone
    \/ SshTick

SpecScan == Init /\ [][NextScan]_vars

NextIter ==
    \/ IterListdir
    \/ IterNext
    \/ IterFlock
    \/ IterLoad
    \/ IterResume
    \/ \E v \in Vms : IterExtLock(v)

SpecIter == Init /\ [][NextIter]_vars

NextCommitImg == CommitListdir \/ CommitLoadImages \/ CommitPrimary

SpecCommitImg == Init /\ [][NextCommitImg]_vars

NextBuilder == BuilderParse \/ BuilderValidate

SpecBuilder == Init /\ [][NextBuilder]_vars

NextImageSpec == ImageSpecNew

SpecImageSpec == Init /\ [][NextImageSpec]_vars

NextCompose == ComposeRun

SpecCompose == Init /\ [][NextCompose]_vars

NextName == NameEncode \/ NameDecode

SpecName == Init /\ [][NextName]_vars

NextDecomp == DecompNew \/ \E n \in 1..MaxStream : Decompress(n)

SpecDecomp == Init /\ [][NextDecomp]_vars

NextSshfs == SshfsCall \/ SshfsCommunicate \/ SshfsProvisionSystem \/ SshfsDoProvision

SpecSshfs == Init /\ [][NextSshfs]_vars

NextEntryScan ==
    \/ EntryScanListdir \/ EntryExits \/ EntryReadEnviron
    \/ EntryReadStartTime \/ EntryReadData \/ EntryFilter

SpecEntryScan == Init /\ [][NextEntryScan]_vars

\* ------------------------------------------------------------------ claims

\* A file holds a completely retrieved image when it starts with every block
\* of some source.
IsCompleteImage(c) ==
    \E s \in Sources : Len(c) >= s /\ SubSeq(c, 1, s) = SourceBlocks(s)

\* C1: at most one process at a time is executing _do_retrieve_image for the
\* backend path, also when processes fail or are killed part-way.
C1_OneRetrievalAtATime ==
    \A p, q \in Procs : p # q => ~(pc[p] = "r_fetch" /\ pc[q] = "r_fetch")

\* One process is fetching, a second one waits for the flock on the same
\* inode, and a process was killed before.
C1_Witness ==
    \E p, q, r \in Procs :
        /\ pc[p] = "r_fetch" /\ wpos[p] > 0
        /\ pc[q] = "r_flock" /\ fd[q] = fd[p]
        /\ pc[r] = "killed"

\* C2 (as claimed): whenever a file exists at the final backend path it is a
\* completely retrieved image.
C2_FinalIsComplete ==
    finalPath # 0 => IsCompleteImage(content[finalPath])

C4_FinalIsReadOnly ==
    finalPath # 0 => readonly[finalPath]

\* C5 (as claimed): every step of an operation that writes a backend file or
\* changes the final path is taken by a process holding the exclusive lock
\* on the working file.
C5_MutationsUnderLock ==
    [][\A p \in Procs :
          ( /\ pc'[p] # pc[p] \/ wpos'[p] # wpos[p]
            /\ finalPath' # finalPath \/ content' # content )
          => (fd[p] # 0 /\ flock[fd[p]] = p)]_vars

\* C6: a commit runs the converter, chmod and rename only while holding the
\* lock and with no backend image of that name present, and a commit that
\* refused did so because the image exists: an existing backend image is never
\* replaced by a commit.
C6_CommitRefusesExisting ==
    \A p \in Procs :
        /\ pc[p] \in {"c_convert", "c_chmod", "c_rename"}
              => (finalPath = 0 /\ fd[p] # 0 /\ flock[fd[p]] = p)
        /\ pc[p] = "failed_exists" => finalPath # 0
        /\ pc[p] = "done_commit" => (finalPath # 0 /\ content[finalPath] = ConvertedBlocks)

\* A commit was refused while another commit of the same name succeeded and a
\* concurrent retrieval returned from its re-check.
C6_Witness ==
    \E p, q, r \in Procs :
        pc[p] = "failed_exists" /\ pc[q] = "done_commit" /\ pc[r] = "done_skip"

\* C7 (as claimed): every VM directory visible under its final name holds its
\* config file and all of its frontend images.
C7_VmDirComplete ==
    vmDir # 0 =>
        /\ dirCfg[vmDir] # 0
        /\ cfgValid[dirCfg[vmDir]]
        /\ dirImgs[vmDir] = Disks

\* C8: among concurrent create_vmstate calls for one name at most one
\* succeeds, the directory under the name then holds exactly the winner's
\* config and images, and a call that found the directory present refused.
C8_OneCreatorWins ==
    \A p \in Procs :
        /\ vpc[p] = "done_create" =>
              /\ vmDir # 0
              /\ dirOwner[vmDir] = p
              /\ dirImgs[vmDir] = Disks
              /\ dirCfg[vmDir] # 0
              /\ cfgOwner[dirCfg[vmDir]] = p
              /\ \A q \in Procs \ {p} : vpc[q] # "done_create"
        /\ vpc[p] \in {"failed_exists", "failed_rename"} => (vmDir # 0 /\ dirOwner[vmDir] # p)

\* One creator succeeded, one lost the race at the rename after building its
\* whole temporary directory, one was refused by the existence check.
C8_Witness ==
    \E p, q, r \in Procs :
        vpc[p] = "done_create" /\ vpc[q] = "failed_rename" /\ vpc[r] = "failed_exists"

\* A process is inside a locked section: it holds a state yielded by
\* lock_vmstate_by_name and has not left the with-block.
InLockedSection(p) == vpc[p] \in {"l_held", "rm_scan", "rm_unlink", "rm_rmdir", "rm_release"}

\* C9 (as claimed): at most one process at a time is inside a locked section
\* for the VM name.
C9_OneLockedSection ==
    \A p, q \in Procs : p # q => ~(InLockedSection(p) /\ InLockedSection(q))

\* C10 (as claimed): lock_vmstate_by_name fails with TransientVmStoreLockHeld
\* and with no other kind of error when the config file does not exist (also
\* when the VM is removed while the caller waits) or the lock times out.
C10_OnlyLockHeldRaised ==
    \A p \in Procs : vpc[p] \notin {"err_noconfig", "err_assert"}

\* C11: while one lock_file call holds the lock no other call acquires it, and
\* a call with timeout t that fails re-raises the OSError no earlier than t
\* after it started, without sleeping at all when t = 0.
C11_SecondLockFails ==
    /\ \A l, m \in Lockers : l # m => ~(lpc[l] = "held" /\ lpc[m] = "held")
    /\ \A l \in Lockers :
          lpc[l] = "raised" =>
              /\ ltimeout[l] >= 0
              /\ lwaited[l] >= ltimeout[l]
              /\ ltimeout[l] = 0 => lslept[l] = 0

\* A call with the longest timeout slept, retried and failed while another
\* call held the lock throughout.
C11_Witness ==
    \E l, m \in Lockers :
        /\ lpc[l] = "held"
        /\ lpc[m] = "raised" /\ ltimeout[m] = MaxTimeout /\ lslept[m] >= 1

\* C12: a lock_file scope that ended, normally or by an exception in its
\* body, no longer holds the lock, and the lock is free whenever no scope is
\* open, so that a new lock_file with timeout 0 acquires it.
C12_LockReleasedAtScopeEnd ==
    /\ \A l \in Lockers : lpc[l] \in {"done", "done_exc"} => lkHeldBy # l
    /\ (\A l \in Lockers : lpc[l] # "held") => lkHeldBy = 0

\* A scope ended by an exception and a later call with timeout 0 holds the lock.
C12_Witness ==
    \E l, m \in Lockers :
        /\ lpc[l] = "done_exc"
        /\ lpc[m] = "held" /\ ltimeout[m] = 0


\* C13 (as claimed): every run() that created frontend images or started the
\* hypervisor has gone through the cleanup step (__post_run) when it ends.
C13_CleanupOnEveryExit ==
    (RunEnded /\ (rimages \in {"frontend", "deleted"} \/ rqemu # "none"))
        => rstate = "FINISHED"

\* C14 (as claimed): the flag is set before the shutdown is requested; a
\* handler call that reaps the hypervisor with the flag set changes nothing
\* else, and one that reaps it with the flag unset performs the cleanup and
\* ends the run with a failure.
C14_HandlerFollowsFlag ==
    /\ [](rpc \in {"shutdown", "terminate", "post_ssh"} => rflag)
    /\ [][(rqemu = "zombie" /\ rqemu' = "reaped_handler") =>
              IF rflag
              THEN rpc' = rpc /\ rcleanups' = rcleanups /\ rresult' = rresult
              ELSE rstate' = "FINISHED" /\ rpc' = "raised"]_vars

C16_StatelessRun ==
    LET stateless == ~rcfg.named /\ ~rcfg.copyIn /\ ~rcfg.copyOut
    IN  /\ rimages # "none" => ((rimages = "backend") <=> stateless)
        /\ rqemu # "none" => (rsnapshot <=> stateless)
        /\ (stateless /\ rpc # "new") => rimages \in {"none", "backend"}

\* A stateless console run whose SSH session exited 0 has ended successfully.
C16_Witness ==
    /\ rpc = "returned" /\ rresult = "ok" /\ rssh = 0
    /\ ~rcfg.named /\ ~rcfg.copyIn /\ ~rcfg.copyOut
    /\ rsnapshot /\ rimages = "backend"

\* C17: terminate on a started runner whose child is running sends SIGTERM to
\* the child, and a child that honours SIGTERM has then ended with the exit
\* status of a death by SIGTERM; a child that ignores it is sent SIGKILL after
\* kill_after seconds and ends with the exit status of a death by SIGKILL.
C17_TerminateSignals ==
    \A r \in Runners :
        qtermd[r] =>
            /\ SIGTERM \in qsent[r]
            /\ ~qignore[r] => (qstate[r] = "exited" /\ qstatus[r] = -SIGTERM)


\* C18: once a use of an ImageEditor has ended, normally or by a failure, the
\* maintenance hypervisor that edit() started is no longer running.
C18_EditorStopsVm ==
    \A e \in Editors : epc[e] \in {"done", "raised"} => evm[e] # "running"


\* C19: the real session is spawned at most once and only after a probe
\* returned 0; after a probe returned 255 the next probe starts no earlier than
\* the fixed interval later, and it does start when the loop is re-entered
\* before the deadline; a probe returning any other non-zero code fails the
\* connection with no further probe and no real session; reaching the deadline
\* fails the connection with no real session.
C19_LauncherProtocol ==
    /\ [](/\ sreal <= 1
          /\ sreal = 1 => (slast = 0 /\ spc = "returned")
          /\ (spc = "probing" /\ sprobes >= 2) =>
                 snow - sfailAt >= SSH_CONNECTION_TIME_BETWEEN_TRIES
          /\ slast \notin {-1, 0, 255} => (spc = "raised" /\ serr = "code" /\ sreal = 0)
          /\ (spc = "raised" /\ serr = "deadline") =>
                 (sreal = 0 /\ snow - sstart >= stimeout))
    /\ [][/\ (spc = "loop" /\ spc' # "loop") =>
                 IF snow - sstart < stimeout
                 THEN spc' = "probing" /\ sprobes' = sprobes + 1
                 ELSE spc' = "raised" /\ sprobes' = sprobes /\ sreal' = 0
          /\ slast \notin {-1, 0, 255} => (sprobes' = sprobes /\ sreal' = sreal)
          /\ (slast = 255 /\ spc = "sleeping") => spc' \in {"sleeping", "loop"}]_vars

\* A probe returned 255, a later probe returned 0 and the real session runs.
C19_Witness ==
    spc = "returned" /\ sreal = 1 /\ sprobes >= 2 /\ slast = 0


\* C20: a callback passed to send_async is registered before its request is
\* written, is invoked exactly once when the reply with its id has been
\* dispatched, and is never invoked with a reply of another id or a second
\* time; the reader invokes every callback registered for the id of the reply
\* it read and then clears the entry of that id.
C20_ReplyDispatch ==
    /\ [](\A c \in MonCallbacks \ {0} :
            /\ Len(minv[c]) <= 1
            /\ \A k \in 1..Len(minv[c]) : minv[c][k] = mcbid[c]
            /\ (mcbid[c] \in mwritten /\ mdone[mcbid[c]] = 0 /\ Len(minv[c]) = 0) =>
                   c \in SeqRange(mcbs[mcbid[c]])
            /\ (mcbid[c] >= 0 /\ mdone[mcbid[c]] >= 1) => Len(minv[c]) = 1)
    /\ [][(rdpc = "del" /\ rdpc' = "read") =>
              /\ mcbs'[rdmsg] = << >>
              /\ \A c \in rdsnap :
                     Len(minv[c]) > 0 /\ minv[c][Len(minv[c])] = rdmsg]_vars

\* Both requests were answered, one of them twice, every reply was
\* dispatched and each send_async callback ran once.
C20_Witness ==
    /\ mreq = MaxReqs /\ minbox = << >> /\ rdpc = "read"
    /\ \E i \in MonIds : mdone[i] = 2
    /\ \A i \in MonIds : mdone[i] >= 1
    /\ \A c \in MonCallbacks \ {0} : minv[c] = <<mcbid[c]>>


\* C21: ids allocated by calls made from several threads differ from one
\* another, and each send_sync returns the reply to its own request.
C21_OwnReply ==
    /\ \A t, u \in Senders :
           (t # u /\ aret[t] >= 0 /\ aret[u] >= 0) => aret[t] # aret[u]
    /\ \A t \in Senders : apc[t] = "returned" => aresp[t] = t


\* C22: the capability negotiation is the first message written on the
\* connection, and no other command is written before the hypervisor has
\* answered it.
C22_NegotiationFirst ==
    /\ Len(kwritten) >= 1 => kwritten[1] = "qmp_capabilities"
    /\ Len(kwritten) >= 2 => kanswered >= 1


\* C23: at most 8 shared-folder workers run at the same time, and when run()
\* goes on after the join loop every mapping's worker was started and joined.
C23_BoundedWorkers ==
    /\ Cardinality(FolderRunning) <= 8
    /\ fpeak <= 8
    /\ fpc = "proceed" =>
           \A w \in 1..fmaps : fstate[w] = "finished" /\ w \in fjoined

\* A run with more than 8 mappings went on after 8 workers ran at once.
C23_Witness ==
    fpc = "proceed" /\ fmaps > 8 /\ fpeak = 8


\* C24: a call with a name and a timeout T returns an empty list only after
\* at least T seconds, and a matching process started before T has elapsed is
\* returned.
C24_ScanUntilDeadline ==
    ppc = "returned" =>
        /\ ~pfound => snow - pstart >= ptimeout
        /\ (pprocAt >= 0 /\ pprocAt - pstart < ptimeout) => pfound


\* C25: iterating with a zero lock timeout never waits and never raises; an
\* entry is yielded at most once, only if it is a loadable VM, and its lock is
\* held by the iterator while it is consumed; at the end every loadable VM
\* was either yielded or passed over because its lock was held elsewhere, and
\* every other entry was passed over without being yielded.
C25_IterationSkips ==
    /\ ipc \notin {"sleeping", "raised"}
    /\ \A v \in Vms :
           /\ iyields[v] <= 1
           /\ iyields[v] = 1 => (ikind[v] = "ok" /\ iskip[v] = "none")
    /\ ipc = "consuming" => (iheld = ipos /\ iyields[ipos] = 1 /\ ipos \notin iext)
    /\ ipc = "done" =>
           \A v \in Vms :
               CASE ikind[v] = "ok" -> iyields[v] = 1 \/ iskip[v] = "locked"
                 [] ikind[v] = "hidden" -> iskip[v] = "hidden"
                 [] ikind[v] = "noconfig" -> iskip[v] = "error"
                 [] OTHER -> iskip[v] \in {"error", "locked"}

\* An iteration ended after yielding one VM and passing over a VM locked
\* elsewhere and an unparseable one.
C25_Witness ==
    /\ ipc = "done"
    /\ \E v \in Vms : iyields[v] = 1
    /\ \E v \in Vms : ikind[v] = "ok" /\ iskip[v] = "locked"
    /\ \E v \in Vms : ikind[v] = "unparseable" /\ iskip[v] = "error"


\* C26: whatever order the VM directory is listed in, the image a commit
\* converts is the one with disk index 0.
C26_CommitsDiskZero == cpc = "committed" => cconverted = 0


\* The number of instructions of the parsed Imagefile that are of some kinds.
NumOf(kinds) == Cardinality({i \in 1..Len(bprog) : bprog[i] \in kinds})

\* The Imagefile has one FROM, at most one DISK, and the DISK and PARTITION
\* instructions its FROM asks for or forbids.
CountsPass ==
    /\ NumOf(FromKinds) = 1
    /\ NumOf({"FROM scratch"}) = 1 =>
           (NumOf(DiskKinds) = 1 /\ NumOf({"PARTITION /"}) >= 1)
    /\ NumOf({"FROM image"}) = 1 => NumOf(DiskKinds \cup PartitionKinds) = 0

\* Instruction i is a DISK not right after a FROM, or a PARTITION not right
\* after a DISK or a PARTITION.
MisplacedAt(i) ==
    \/ bprog[i] \in DiskKinds /\ (i = 1 \/ bprog[i - 1] \notin FromKinds)
    \/ bprog[i] \in PartitionKinds
          /\ (i = 1 \/ bprog[i - 1] \notin DiskKinds \cup PartitionKinds)

\* C27: an Imagefile without FROM or with several is rejected with the
\* "Exactly one FROM" error, and an accepted Imagefile has exactly one FROM.
C27_ExactlyOneFrom ==
    bpc = "validated" =>
        /\ NumOf(FromKinds) # 1 =>
               berr = "Exactly one FROM instruction must appear per Imagefile"
        /\ berr = "" => NumOf(FromKinds) = 1

\* An Imagefile with two FROMs, otherwise in order, was rejected.
C27_Witness ==
    /\ bpc = "validated"
    /\ NumOf(FromKinds) = 2 /\ Len(bprog) = 3
    /\ berr = "Exactly one FROM instruction must appear per Imagefile"

\* C28: an accepted Imagefile from scratch has a DISK, a PARTITION and a
\* PARTITION mounting "/"; an Imagefile whose one FROM is not scratch and
\* that has a DISK or a PARTITION is rejected.
C28_ScratchNeedsDisk ==
    bpc = "validated" =>
        /\ (berr = "" /\ NumOf({"FROM scratch"}) >= 1) =>
               /\ NumOf(DiskKinds) >= 1
               /\ NumOf(PartitionKinds) >= 1
               /\ NumOf({"PARTITION /"}) >= 1
        /\ (NumOf({"FROM image"}) = 1 /\ NumOf(FromKinds) = 1
              /\ NumOf(DiskKinds \cup PartitionKinds) >= 1) => berr # ""

\* An Imagefile from scratch with two partitions, one at "/", was accepted.
C28_Witness ==
    /\ bpc = "validated" /\ berr = ""
    /\ NumOf({"FROM scratch"}) = 1
    /\ NumOf({"PARTITION /"}) = 1 /\ NumOf({"PARTITION"}) = 1

\* C29 as claimed: an Imagefile whose FROM has any instruction before it
\* (and whose instruction counts are in order) is rejected with the "FROM
\* instruction must appear before any other instructions" error.
C29_FromFirstError ==
    (bpc = "validated" /\ CountsPass /\ bprog[1] \notin FromKinds) =>
        berr = "FROM instruction must appear before any other instructions"

\* C29 amended: an Imagefile whose FROM has any instruction before it is
\* rejected; when its instruction counts are in order the error is the one of
\* the first DISK or PARTITION before FROM, and the "FROM instruction must
\* appear before any other instructions" error when there is none.
C29_RejectedBeforeFrom ==
    (bpc = "validated" /\ Len(bprog) >= 1 /\ bprog[1] \notin FromKinds
       /\ NumOf(FromKinds) >= 1) =>
        /\ berr # ""
        /\ CountsPass =>
             LET from == CHOOSE i \in 1..Len(bprog) : bprog[i] \in FromKinds
                 early == {i \in 1..(from - 1) : bprog[i] \notin ExecuteKinds}
                 first == CHOOSE i \in early : \A j \in early : i <= j
             IN  berr = IF early = {}
                        THEN "FROM instruction must appear before any other instructions"
                        ELSE IF bprog[first] \in DiskKinds
                        THEN "DISK instruction must appear immediately after FROM instruction"
                        ELSE "PARTITION instructions must appear immediately after DISK instruction"

\* An Imagefile from scratch with a RUN before its FROM, counts in order, was
\* rejected with the "FROM instruction must appear before" error.
C29_Witness ==
    /\ bpc = "validated" /\ CountsPass
    /\ bprog[1] \in ExecuteKinds /\ bprog[2] = "FROM scratch"
    /\ berr = "FROM instruction must appear before any other instructions"

C31_ImageSpecFields ==
    LET commas == {i \in 1..Len(zspec) : zspec[i] = ","}
    IN  /\ zpc = "ok" =>
              /\ zname # <<>> /\ Without(zname, 1, Len(zname), ",")
              /\ commas = {} =>
                     (zname = zspec /\ zproto = "vagrant" /\ zsource = zname)
              /\ commas # {} =>
                     zspec = zname \o <<",">> \o ztoken \o <<"=">> \o zsource
        /\ (zpc # "new" /\ zspec # <<>> /\ zspec[1] = ",") => zpc = "invalid"

\* C32: a constructed ImageSpec with a protocol part has as protocol text
\* exactly the name of a supported protocol, whatever the case of its letters.
C32_UnknownRejected ==
    (zpc = "ok" /\ ztoken # <<>>) =>
        \E i \in 1..Len(ImageProtocols) :
            [c \in 1..Len(ztoken) |-> LowerCase(ztoken[c])] = ProtocolWord(ImageProtocols[i])


\* C33: in a composed RunConfig the list-valued option holds the create-side
\* elements in order followed by the start-side elements in order, and each
\* scalar option holds the start-side value when that is set and the
\* create-side value otherwise.
C33_ComposedConfig ==
    gpc = "composed" =>
        /\ Len(grun.qemu_args) = Len(gcreate.qemu_args) + Len(gstart.qemu_args)
        /\ \A i \in 1..Len(gcreate.qemu_args) : grun.qemu_args[i] = gcreate.qemu_args[i]
        /\ \A i \in 1..Len(gstart.qemu_args) :
               grun.qemu_args[Len(gcreate.qemu_args) + i] = gstart.qemu_args[i]
        /\ \A k \in ScalarOptions :
               grun[k] = IF gstart[k] = "null" THEN gcreate[k] ELSE gstart[k]

\* A RunConfig was composed from configs with different lists and with a
\* start-side scalar that overrides a different create-side value.
C33_Witness ==
    /\ gpc = "composed"
    /\ gcreate.qemu_args = <<"-smp">> /\ gstart.qemu_args = <<"-m">>
    /\ gcreate.ssh_console = "false" /\ gstart.ssh_console = "true"
    /\ grun.ssh_console = "true" /\ grun.image = "example-image"


\* C34: decoding the encoding of a name gives the name back.
C34_RoundTrip == ypc = "decoded" => ydec = yname

\* The name "%2D-" was encoded, to "%252D%2D", and decoded.
C34_Witness ==
    /\ ypc = "decoded"
    /\ yname = <<37, 50, 68, 45>>
    /\ yenc = <<37, 50, 53, 50, 68, 37, 50, 68>>


\* C35: once chosen, the decompression method is the one the first bytes of
\* the whole stream stand for, however the stream is cut into chunks, and it
\* is never replaced.
C35_DetectionIgnoresChunking ==
    dmethod # "none" => (dmethod = DetectFormat(dstream) /\ ~dchanged)


\* C36: in every run the cleanup step is carried out at most once.
C36_CleanupAtMostOnce == rcleanups <= 1

\* C37: a cleanup that copies files out of the VM's images, which starts the
\* maintenance hypervisor on them, happens only when the hypervisor of the
\* run is no longer running.
C37_MaintenanceAfterExit ==
    [][(rcleanups' = rcleanups + 1 /\ rcfg.copyOut) => rqemu' # "running"]_vars


\* C38: when a retrieval has succeeded after another attempt for the name
\* failed or was killed, the file at the final backend path holds exactly the
\* blocks the successful attempt wrote.
C38_NoStaleBytes ==
    \A p \in Procs :
        (pc[p] = "done_fetch" /\ \E q \in Procs : pc[q] \in {"failed", "killed"}) =>
            (finalPath # 0 /\ content[finalPath] = SourceBlocks(src[p]))


\* C39: one top-level call of do_sshfs_mount provisions the guest at most once
\* and retries with the slow timeout at most once.
C39_BoundedAttempts == hprovisions <= 1 /\ hslowcalls <= 1


\* C40: a scan never fails because of one entry: an entry that exited, has an
\* empty or unparseable descriptor, or lacks a key being filtered on is
\* skipped, and every other matching instance is returned.
EntryMatches(p) ==
    /\ oprocs[p].kind = "config"
    /\ ofilter.vmstore => oprocs[p].vmstore = "same"
    /\ ofilter.name => oprocs[p].name = "same"
    /\ ofilter.with_ssh => oprocs[p].ssh_port

C40_EntriesSkipped ==
    /\ opc # "raised"
    /\ opc = "returned" =>
           /\ \A p \in oinstances : EntryMatches(p)
           /\ \A p \in Pids \ oexited : EntryMatches(p) => p \in oinstances


TypeOK ==
    /\ workPath \in 0..MaxInodes
    /\ finalPath \in 0..MaxInodes
    /\ nInodes \in 0..MaxInodes
    /\ \A i \in Inodes : flock[i] \in 0..NumProcs
    /\ \A p \in Procs : fd[p] \in 0..MaxInodes /\ Len(wbuf[p]) <= MaxBuffered
====
